---- MODULE Spec2Model ----
(***************************************************************************)
(* A model of henUtils/queryUtils.py: the paginated fetchers with their    *)
(* json disk cache, the bigmap builders and the account extractors.        *)
(***************************************************************************)
EXTENDS Integers, Sequences, FiniteSets, TLC

(***************************************************************************)
(* Bounds of the model.                                                    *)
(***************************************************************************)
\* The largest number of records the remote service holds for one resource.
MaxRemote == 3
\* The largest batch size (transactions_per_batch, keys_per_batch, ...).
MaxBatch == 2
\* The number of times the fetcher is invoked on the same data directory.
MaxRuns == 3

(***************************************************************************)
(* The paginated fetchers: get_all_transactions, get_bigmap_keys and       *)
(* get_tezos_wallets.                                                      *)
(***************************************************************************)
VARIABLES
    fn,            \* the fetcher that is running
    type,          \* its first argument: the transaction type / the bigmap name
    per_batch,     \* transactions_per_batch / keys_per_batch / wallets_per_batch
    remote,        \* resource -> the records the remote service holds, in its order
    disk,          \* data_dir: file name -> [data, complete]
    ci,            \* position of the for loop in contracts / bigmap_ids
    counter,       \* the loop's page counter
    transactions,  \* the list being accumulated (transactions, bigmap_keys, wallets)
    pc,            \* "idle", "loop", "done", "failed" (an exception), "killed"
    runNo,         \* number of invocations so far
    prior,         \* how the previous invocation ended ("idle": there was none)
    prevResult,    \* <<>> or <<list>>: what the last earlier completed invocation returned
    event,         \* what the last loop iteration did
    hits           \* number of batches this invocation has read from the disk

fetchVars == <<fn, type, per_batch, remote, disk, ci, counter, transactions,
               pc, runNo, prior, prevResult, event, hits>>

\* The bigmap builders.
VARIABLES
    builder,      \* the builder that is running
    name,         \* its bigmap name
    token,        \* its token name (objkt.com and token bigmaps)
    bigmap_keys,  \* the bigmap keys the loop has gone through, in order
    bigmap,       \* the dictionary being built
    bcounter,     \* get_token_bigmap's counter
    bpc           \* "build", "returned", "failed" (an exception)

bigmapVars == <<builder, name, token, bigmap_keys, bigmap, bcounter, bpc>>

\* The account extractors.
VARIABLES
    extractor,             \* the script part that is running
    mint_transactions,     \* the mint transactions the loop has gone through
    collect_transactions,  \* the collect transactions the loop has gone through
    bid_transactions,      \* the objkt.com bid transactions gone through
    ask_transactions,      \* the objkt.com ask transactions gone through
    english_auction_transactions,  \* the english auction transactions gone through
    dutch_auction_transactions,    \* the dutch auction transactions gone through
    artists,               \* the artists dictionary, accounts in insertion order
    collectors,            \* the collectors dictionary, accounts in insertion order
    patrons,               \* the patrons dictionary, accounts in insertion order
    swap_id,               \* extract_collector_accounts' local variable swap_id
    swap_transactions,     \* the swap transactions the loop has gone through
    swappers,              \* the swappers dictionary, accounts in insertion order
    users,                 \* the users dictionary, accounts in insertion order
    apc                    \* the loop or call the script is at

marketVars == <<bid_transactions, ask_transactions,
                english_auction_transactions, dutch_auction_transactions>>

swapVars == <<swap_transactions, swappers, users>>

accountVars == <<extractor, mint_transactions, collect_transactions, marketVars,
                 artists, collectors, patrons, swap_id, swapVars, apc>>

\* add_accounts_metadata.
VARIABLES
    account_dict,        \* the argument accounts: the accounts in insertion order
    given,               \* the accounts dictionary as it was at the call
    from_account_index,  \* the argument from_account_index
    to_account_index,    \* the argument to_account_index: <<>> is None, <<n>> is n
    wallet_ids,          \* the local variable wallet_ids
    index,               \* the number of iterations of the loop that are over
    lookups,             \* the calls of get_account_metadata and what came of them
    mpc                  \* where add_accounts_metadata is

metadataVars == <<account_dict, given, from_account_index, to_account_index,
                  wallet_ids, index, lookups, mpc>>

\* extract_users_connections.
VARIABLES
    objkt_creators,        \* the argument objkt_creators: OBJKT id -> creator
    reported_users,        \* the argument reported_users
    creators_seen,         \* the number of objkt_creators.values() gone through
    connect_transactions,  \* the collect transactions the loop has gone through
    objktcom_collectors,   \* the objkt.com collectors the loop has gone through
    users_connections,     \* the dictionary users_connections, in insertion order
    user_counter,          \* the local variable user_counter
    serialized_users_connections,  \* the serialized dictionary, in insertion order
    cpc                    \* the loop extract_users_connections is at

connectionVars == <<objkt_creators, reported_users, creators_seen,
                    connect_transactions, objktcom_collectors,
                    users_connections, user_counter,
                    serialized_users_connections, cpc>>

\* The batch loop of the metadata scripts.
VARIABLES
    n_accounts,   \* len(artists): the size of the dictionary the script enriches
    batch_size,   \* the script's batch_size
    from_index,   \* the script's from_index
    to_index,     \* the script's to_index
    batches,      \* the wallet_ids of the calls of add_accounts_metadata so far
    dpc           \* where the script is

driverVars == <<n_accounts, batch_size, from_index, to_index, batches, dpc>>

\* What the actions of one part of the model leave alone.
notFetch == <<bigmapVars, accountVars, metadataVars, connectionVars, driverVars>>
notBigmap == <<fetchVars, accountVars, metadataVars, connectionVars, driverVars>>
notAccounts == <<fetchVars, bigmapVars, metadataVars, connectionVars, driverVars>>
notMetadata == <<fetchVars, bigmapVars, accountVars, connectionVars, driverVars>>
notConnections == <<fetchVars, bigmapVars, accountVars, metadataVars, driverVars>>
notDriver == <<fetchVars, bigmapVars, accountVars, metadataVars, connectionVars>>

Fetchers == {"get_all_transactions", "get_bigmap_keys", "get_tezos_wallets"}

\* The type arguments the model draws for each fetcher.
Types(f) ==
    CASE f = "get_all_transactions" -> {"mint", "collect"}
      [] f = "get_bigmap_keys" -> {"swaps", "registries"}
      [] OTHER -> {"wallets"}

\* The contracts (bigmap ids) the for loop runs over.
contracts(f, t) ==
    CASE f = "get_all_transactions" /\ t = "mint" ->
            <<"KT1RJ6PbjHpwc3M5rw5s2Nbmefwbuwbdxton">>
      [] f = "get_all_transactions" /\ t = "collect" ->
            <<"KT1Hkg5qeNhfwpKW4fXvq7HGZB9z2EnmCCA9",
              "KT1HbQepzV1nVGg8QVznG7z4RcHseD5kwqBn">>
      [] f = "get_bigmap_keys" /\ t = "swaps" -> <<"523", "6072">>
      [] f = "get_bigmap_keys" /\ t = "registries" -> <<"3919">>
      [] OTHER -> <<"accounts">>

Range(s) == {s[i] : i \in DOMAIN s}

\* The record the remote service holds at position i of resource c. Every
\* record has fields the fetcher has no use for; "initiator" and "alias" are
\* present on some records only.
RawRecord(f, c, i) ==
    CASE f = "get_all_transactions" ->
            IF i % 2 = 0
            THEN [id |-> i, hash |-> "op", timestamp |-> i, sender |-> "tz1a",
                  target |-> c, amount |-> 0, parameter |-> i,
                  initiator |-> "tz1b"]
            ELSE [id |-> i, hash |-> "op", timestamp |-> i, sender |-> "tz1a",
                  target |-> c, amount |-> 0, parameter |-> i]
      [] f = "get_bigmap_keys" ->
            [id |-> i, active |-> TRUE, hash |-> "expr", key |-> i,
             value |-> c, firstLevel |-> i]
      [] OTHER ->
            IF i % 2 = 0
            THEN [type |-> "user", address |-> i, alias |-> "name",
                  firstActivityTime |-> i, lastActivityTime |-> i,
                  balance |-> 0]
            ELSE [type |-> "user", address |-> i, firstActivityTime |-> i,
                  lastActivityTime |-> i, balance |-> 0]

Min(a, b) == IF a < b THEN a ELSE b

\* What the remote service answers to a query with &offset= and &limit=.
get_query_result(f, c, offset, limit) ==
    SubSeq(remote[c], offset + 1, Min(offset + limit, Len(remote[c])))

relevant_keywords(f) ==
    CASE f = "get_all_transactions" ->
            {"timestamp", "initiator", "sender", "target", "amount", "parameter"}
      [] f = "get_tezos_wallets" ->
            {"type", "address", "alias", "firstActivityTime", "lastActivityTime"}
      [] OTHER -> {}

ShrinkKeepsId(record, keywords) ==
    [keyword \in (DOMAIN record) \cap (keywords \cup {"id"}) |-> record[keyword]]

\* {keyword: record[keyword] for keyword in relevant_keywords if keyword in record}
Shrink(record, keywords) ==
    [keyword \in (DOMAIN record) \cap keywords |-> record[keyword]]

ShrinkNothing(f, records) == records

\* extract_relevant_transaction_information, extract_relevant_wallet_information;
\* get_bigmap_keys keeps the records as they are.
extract_relevant_information(f, records) ==
    IF f = "get_bigmap_keys"
    THEN records
    ELSE [i \in 1..Len(records) |-> Shrink(records[i], relevant_keywords(f))]

FileNameNoContract(f, t, c, n, batch) ==
    [prefix |-> t, kind |-> "transactions", resource |-> "",
     lo |-> (n - 1) * batch, hi |-> n * batch]

\* The name of the json file of a batch.
file_name(f, t, c, n, batch) ==
    CASE f = "get_all_transactions" ->
            [prefix |-> t, kind |-> "transactions", resource |-> c,
             lo |-> (n - 1) * batch, hi |-> n * batch]
      [] f = "get_bigmap_keys" ->
            [prefix |-> "bigmap", kind |-> "keys", resource |-> c,
             lo |-> (n - 1) * batch, hi |-> n * batch]
      [] OTHER ->
            [prefix |-> "", kind |-> "wallets", resource |-> "",
             lo |-> (n - 1) * batch, hi |-> n * batch]

ExistsNever(file) == FALSE

\* os.path.exists(file_name)
os_path_exists(file) == file \in DOMAIN disk

SavesAccumulated(f, new_records) ==
    [data |-> transactions \o extract_relevant_information(f, new_records),
     complete |-> TRUE]

\* save_json_file(file_name, new_transactions): the content of the file once
\* json.dump has returned and the file is closed.
save_json_file(f, new_records) == [data |-> new_records, complete |-> TRUE]

\* A file whose writer was killed inside json.dump: some prefix of the text.
TornFile(new_records) == [data |-> <<>>, complete |-> FALSE]

IsShortAlways(new_records, batch) == TRUE
IsShortWhenEmpty(new_records, batch) == Len(new_records) = 0

\* len(new_transactions) != transactions_per_batch
IsShort(new_records, batch) == Len(new_records) # batch

CurFile == file_name(fn, type, contracts(fn, type)[ci], counter, per_batch)
CurContract == contracts(fn, type)[ci]
CurOffset == (counter - 1) * per_batch

NoEvent == [kind |-> "none"]

FetchInit ==
    /\ fn \in Fetchers
    /\ type \in Types(fn)
    /\ per_batch \in 1..MaxBatch
    /\ \E len \in [Range(contracts(fn, type)) -> 0..MaxRemote] :
          remote = [c \in Range(contracts(fn, type)) |->
                       [i \in 1..len[c] |-> RawRecord(fn, c, i)]]
    /\ disk = <<>>
    /\ ci = 1
    /\ counter = 1
    /\ transactions = <<>>
    /\ pc = "idle"
    /\ runNo = 0
    /\ prior = "idle"
    /\ prevResult = <<>>
    /\ event = NoEvent
    /\ hits = 0

\* The call: transactions = [], counter = 1, and the for loop starts.
Invoke ==
    /\ pc \in {"idle", "done", "failed", "killed"}
    /\ runNo < MaxRuns
    /\ runNo' = runNo + 1
    /\ prior' = pc
    /\ pc' = "loop"
    /\ ci' = 1
    /\ counter' = 1
    /\ transactions' = <<>>
    /\ event' = NoEvent
    /\ hits' = 0
    /\ prevResult' = IF pc = "done" THEN <<transactions>> ELSE prevResult
    /\ UNCHANGED <<fn, type, per_batch, remote, disk>>
    /\ UNCHANGED notFetch

\* The batch file exists: it is read (json.load fails on a file that was not
\* written to its end) and the loop goes on with the next batch.
ReadBatch ==
    /\ pc = "loop"
    /\ os_path_exists(CurFile)
    /\ event' = [kind |-> "read", file |-> CurFile, resource |-> CurContract,
                 counter |-> counter, onDisk |-> CurFile \in DOMAIN disk,
                 complete |-> disk[CurFile].complete]
    /\ IF disk[CurFile].complete
       THEN /\ transactions' = transactions \o
                   extract_relevant_information(fn, disk[CurFile].data)
            /\ counter' = counter + 1
            /\ hits' = hits + 1
            /\ pc' = pc
       ELSE /\ pc' = "failed"
            /\ UNCHANGED <<transactions, counter, hits>>
    /\ UNCHANGED <<fn, type, per_batch, remote, disk, ci, runNo, prior,
                   prevResult>>
    /\ UNCHANGED notFetch

DownloadBatchUnsaved ==
    /\ pc = "loop"
    /\ ~os_path_exists(CurFile)
    /\ LET new_transactions ==
               get_query_result(fn, CurContract, CurOffset, per_batch)
       IN  /\ ~IsShort(new_transactions, per_batch)
           /\ transactions' = transactions \o
                  extract_relevant_information(fn, new_transactions)
    /\ event' = [kind |-> "download", file |-> CurFile, resource |-> CurContract,
                 counter |-> counter, onDisk |-> CurFile \in DOMAIN disk,
                 complete |-> TRUE]
    /\ counter' = counter + 1
    /\ UNCHANGED <<fn, type, per_batch, remote, disk, ci, pc, runNo, prior,
                   prevResult, hits>>
    /\ UNCHANGED notFetch

\* The batch file does not exist and the query returns a full batch: it is
\* added, saved, and the loop goes on with the next batch.
DownloadBatch ==
    /\ pc = "loop"
    /\ ~os_path_exists(CurFile)
    /\ LET new_transactions ==
               get_query_result(fn, CurContract, CurOffset, per_batch)
       IN  /\ ~IsShort(new_transactions, per_batch)
           /\ transactions' = transactions \o
                  extract_relevant_information(fn, new_transactions)
           /\ disk' = (CurFile :> save_json_file(fn, new_transactions)) @@ disk
    /\ event' = [kind |-> "download", file |-> CurFile, resource |-> CurContract,
                 counter |-> counter, onDisk |-> CurFile \in DOMAIN disk,
                 complete |-> TRUE]
    /\ counter' = counter + 1
    /\ UNCHANGED <<fn, type, per_batch, remote, ci, pc, runNo, prior,
                   prevResult, hits>>
    /\ UNCHANGED notFetch

LastBatchSaved ==
    /\ pc = "loop"
    /\ ~os_path_exists(CurFile)
    /\ LET new_transactions ==
               get_query_result(fn, CurContract, CurOffset, per_batch)
           result == transactions \o
                         extract_relevant_information(fn, new_transactions)
       IN  /\ IsShort(new_transactions, per_batch)
           /\ transactions' = result
           /\ disk' = (CurFile :> save_json_file(fn, new_transactions)) @@ disk
           /\ IF ci < Len(contracts(fn, type))
              THEN /\ ci' = ci + 1
                   /\ pc' = pc
              ELSE /\ pc' = "done"
                   /\ ci' = ci
    /\ event' = [kind |-> "last", file |-> CurFile, resource |-> CurContract,
                 counter |-> counter, onDisk |-> CurFile \in DOMAIN disk,
                 complete |-> TRUE]
    /\ counter' = 1
    /\ UNCHANGED <<fn, type, per_batch, remote, runNo, prior,
                   prevResult, hits>>
    /\ UNCHANGED notFetch

LastBatchKeepsCounter ==
    /\ pc = "loop"
    /\ ~os_path_exists(CurFile)
    /\ LET new_transactions ==
               get_query_result(fn, CurContract, CurOffset, per_batch)
           result == transactions \o
                         extract_relevant_information(fn, new_transactions)
       IN  /\ IsShort(new_transactions, per_batch)
           /\ transactions' = result
           /\ IF ci < Len(contracts(fn, type))
              THEN /\ ci' = ci + 1
                   /\ pc' = pc
              ELSE /\ pc' = "done"
                   /\ ci' = ci
    /\ event' = [kind |-> "last", file |-> CurFile, resource |-> CurContract,
                 counter |-> counter, onDisk |-> CurFile \in DOMAIN disk,
                 complete |-> TRUE]
    /\ counter' = counter
    /\ UNCHANGED <<fn, type, per_batch, remote, disk, runNo, prior,
                   prevResult, hits>>
    /\ UNCHANGED notFetch

\* The batch file does not exist and the query returns less than a batch: it
\* is added, nothing is saved, and the while loop breaks; the for loop goes to
\* the next contract or the list is returned.
LastBatch ==
    /\ pc = "loop"
    /\ ~os_path_exists(CurFile)
    /\ LET new_transactions ==
               get_query_result(fn, CurContract, CurOffset, per_batch)
           result == transactions \o
                         extract_relevant_information(fn, new_transactions)
       IN  /\ IsShort(new_transactions, per_batch)
           /\ transactions' = result
           /\ IF ci < Len(contracts(fn, type))
              THEN /\ ci' = ci + 1
                   /\ pc' = pc
              ELSE /\ pc' = "done"
                   /\ ci' = ci
    /\ event' = [kind |-> "last", file |-> CurFile, resource |-> CurContract,
                 counter |-> counter, onDisk |-> CurFile \in DOMAIN disk,
                 complete |-> TRUE]
    /\ counter' = 1
    /\ UNCHANGED <<fn, type, per_batch, remote, disk, runNo, prior,
                   prevResult, hits>>
    /\ UNCHANGED notFetch

FailedBatchSaved ==
    /\ pc = "loop"
    /\ ~os_path_exists(CurFile)
    /\ pc' = "failed"
    /\ disk' = (CurFile :> save_json_file(fn, <<>>)) @@ disk
    /\ event' = [kind |-> "error", file |-> CurFile, resource |-> CurContract,
                 counter |-> counter, onDisk |-> CurFile \in DOMAIN disk,
                 complete |-> TRUE]
    /\ UNCHANGED <<fn, type, per_batch, remote, ci, counter,
                   transactions, runNo, prior, prevResult, hits>>
    /\ UNCHANGED notFetch

\* urlopen raises (or the status is not 200 and None is returned, which the
\* caller cannot iterate): the exception ends the call.
DownloadFails ==
    /\ pc = "loop"
    /\ ~os_path_exists(CurFile)
    /\ pc' = "failed"
    /\ event' = [kind |-> "error", file |-> CurFile, resource |-> CurContract,
                 counter |-> counter, onDisk |-> CurFile \in DOMAIN disk,
                 complete |-> TRUE]
    /\ UNCHANGED <<fn, type, per_batch, remote, disk, ci, counter,
                   transactions, runNo, prior, prevResult, hits>>
    /\ UNCHANGED notFetch

\* The process is stopped between two iterations of the loop (in time.sleep,
\* say): what was saved stays on disk.
Interrupt ==
    /\ pc = "loop"
    /\ pc' = "killed"
    /\ UNCHANGED <<fn, type, per_batch, remote, disk, ci, counter,
                   transactions, runNo, prior, prevResult, event, hits>>
    /\ UNCHANGED notFetch

\* The process is stopped inside save_json_file: open(file_name, "w") has
\* created the file and json.dump has not written all of it.
InterruptSave ==
    /\ pc = "loop"
    /\ ~os_path_exists(CurFile)
    /\ LET new_transactions ==
               get_query_result(fn, CurContract, CurOffset, per_batch)
       IN  /\ ~IsShort(new_transactions, per_batch)
           /\ disk' = (CurFile :> TornFile(new_transactions)) @@ disk
    /\ pc' = "killed"
    /\ event' = [kind |-> "torn", file |-> CurFile, resource |-> CurContract,
                 counter |-> counter, onDisk |-> CurFile \in DOMAIN disk,
                 complete |-> FALSE]
    /\ UNCHANGED <<fn, type, per_batch, remote, ci, counter, transactions,
                   runNo, prior, prevResult, hits>>
    /\ UNCHANGED notFetch

\* Between two calls the remote service gets a new record: the list of a
\* resource grows at its end, the records it had keep their positions.
RemoteGrows ==
    /\ pc \in {"done", "failed", "killed"}
    /\ \E c \in DOMAIN remote :
          /\ Len(remote[c]) < MaxRemote
          /\ remote' = [remote EXCEPT
                           ![c] = Append(@, RawRecord(fn, c, Len(@) + 1))]
    /\ UNCHANGED <<fn, type, per_batch, disk, ci, counter, transactions, pc,
                   runNo, prior, prevResult, event, hits>>
    /\ UNCHANGED notFetch

(***************************************************************************)
(* The bigmap builders: get_hen_bigmap, get_objktcom_bigmap,               *)
(* get_fxhash_bigmap and get_token_bigmap. The model starts where          *)
(* get_bigmap_keys has returned and follows the loop over bigmap_keys.     *)
(***************************************************************************)
\* The largest number of bigmap keys in the list a builder is given.
MaxKeys == 3

\* The calls the model draws: <<builder, name, token>>. The token "dict" /
\* "scalar" of get_token_bigmap stands for a token whose ledger keys are
\* dictionaries ({"address": ..., "nat": ...}) or plain values.
BuilderCalls ==
    {<<"get_hen_bigmap", "swaps", "">>,
     <<"get_hen_bigmap", "royalties", "">>,
     <<"get_hen_bigmap", "registries", "">>,
     <<"get_hen_bigmap", "subjkts metadata", "">>,
     <<"get_objktcom_bigmap", "bids", "OBJKT">>,
     <<"get_objktcom_bigmap", "bids", "all">>,
     <<"get_objktcom_bigmap", "minter", "OBJKT">>,
     <<"get_fxhash_bigmap", "offers", "">>,
     <<"get_token_bigmap", "ledger", "dict">>,
     <<"get_token_bigmap", "ledger", "scalar">>}

\* A hex string is a sequence of characters: 0..15 are the hex digits, 16 is a
\* character that is no hex digit.
HexStrings == {<<4, 1>>, <<15, 15>>, <<4, 1, 4>>, <<4, 16>>}

\* bytes.fromhex raises ValueError on an odd number of digits and on a
\* character that is no hex digit.
fromhex_raises(hex) ==
    \/ Len(hex) % 2 # 0
    \/ \E i \in DOMAIN hex : hex[i] > 15

\* bytes.fromhex(hex)
fromhex(hex) == [i \in 1..(Len(hex) \div 2) |-> 16 * hex[2 * i - 1] + hex[2 * i]]

\* U+FFFD, what errors="replace" puts for a byte that cannot be decoded.
ReplacementCharacter == 65533

\* bytes.decode("utf-8", errors="replace"), as a sequence of code points, for
\* byte strings without continuation bytes (0x80..0xBF): a byte below 0x80 is
\* its own code point, any other byte cannot be decoded.
decode_utf8_replace(bytes) ==
    [i \in DOMAIN bytes |-> IF bytes[i] < 128 THEN bytes[i]
                            ELSE ReplacementCharacter]

\* The fa2 contract of the objkt.com entry with the given key: an entry's
\* token does not change from one update to the next.
FA2Of(key) ==
    IF key = "1" THEN "KT1RJ6PbjHpwc3M5rw5s2Nbmefwbuwbdxton"
    ELSE "KT1LHHLso8zQWQWg1HUukajdxxbkGfNoHjh6"

\* The bigmap keys ({"key": ..., "value": ..., "active": ...}) the service can
\* return for a call.
BigmapKeys(b, n, t) ==
    CASE b = "get_hen_bigmap" /\ n = "registries" ->
            [key : {"tz1a", "tz1b"}, value : HexStrings, active : BOOLEAN]
      [] b = "get_hen_bigmap" /\ n = "subjkts metadata" ->
            [key : {<<4, 1>>, <<15, 15>>}, value : HexStrings, active : BOOLEAN]
      [] b = "get_objktcom_bigmap" ->
            {[key |-> k, active |-> a,
              value |-> [fa2 |-> FA2Of(k), issuer |-> "tz1a", objkt_id |-> "7",
                         xtz_per_objkt |-> x]] :
                 k \in {"1", "2"}, a \in BOOLEAN, x \in {"1000000", "2000000"}}
      [] b = "get_token_bigmap" /\ t = "dict" ->
            [key : {[address |-> "tz1a", nat |-> "7"],
                    [address |-> "tz1b", nat |-> "7"]},
             value : {"1", "2"}, active : BOOLEAN]
      [] b = "get_token_bigmap" ->
            [key : {"1", "2"}, value : {"1", "2"}, active : BOOLEAN]
      [] OTHER ->
            {[key |-> k, active |-> a,
              value |-> [issuer |-> "tz1a", objkt_id |-> "7",
                         xtz_per_objkt |-> x]] :
                 k \in {"1", "2"}, a \in BOOLEAN, x \in {"1000000", "2000000"}}

token_contracts(t) ==
    CASE t = "OBJKT" -> {"KT1RJ6PbjHpwc3M5rw5s2Nbmefwbuwbdxton"}
      [] t = "tezzardz" -> {"KT1LHHLso8zQWQWg1HUukajdxxbkGfNoHjh6"}
      [] OTHER -> {}

\* dictionary[key] = value
Put(dictionary, key, value) == (key :> value) @@ dictionary

\* value["active"] = active
SetActive(value, active) == ("active" :> active) @@ value

\* Whether the loop body raises on this bigmap key.
build_raises(b, n, bigmap_key) ==
    CASE b = "get_hen_bigmap" /\ n = "registries" ->
            fromhex_raises(bigmap_key.value)
      [] b = "get_hen_bigmap" /\ n = "subjkts metadata" ->
            fromhex_raises(bigmap_key.key) \/ fromhex_raises(bigmap_key.value)
      [] OTHER -> FALSE

\* The body of get_hen_bigmap's loop: the dictionary after it.
get_hen_bigmap(n, bm, bigmap_key) ==
    CASE n = "registries" ->
            Put(bm, bigmap_key.key,
                SetActive([user |-> decode_utf8_replace(fromhex(bigmap_key.value))],
                          bigmap_key.active))
      [] n = "subjkts metadata" ->
            Put(bm, decode_utf8_replace(fromhex(bigmap_key.key)),
                SetActive([user_metadata |->
                               decode_utf8_replace(fromhex(bigmap_key.value))],
                          bigmap_key.active))
      [] OTHER ->
            Put(bm, bigmap_key.key, SetActive(bigmap_key.value, bigmap_key.active))

\* The body of get_objktcom_bigmap's loop.
get_objktcom_bigmap(n, t, bm, bigmap_key) ==
    IF n = "minter" \/ t = "all"
    THEN Put(bm, bigmap_key.key, SetActive(bigmap_key.value, bigmap_key.active))
    ELSE IF bigmap_key.value.fa2 \in token_contracts(t)
         THEN Put(bm, bigmap_key.key,
                  SetActive(bigmap_key.value, bigmap_key.active))
         ELSE bm

\* The body of get_fxhash_bigmap's loop (name "offers").
get_fxhash_bigmap(n, bm, bigmap_key) ==
    Put(bm, bigmap_key.key, SetActive(bigmap_key.value, bigmap_key.active))

\* isinstance(bigmap_key["key"], dict): the keys of one bigmap are all of one
\* kind, given by the token of the call.
IsDict(t, key) == t = "dict"

\* The body of get_token_bigmap's loop: [bigmap, counter] after it.
get_token_bigmap(t, bm, cnt, bigmap_key) ==
    IF IsDict(t, bigmap_key.key)
    THEN [bigmap |-> Put(bm, cnt, bigmap_key.key), counter |-> cnt + 1]
    ELSE [bigmap |-> Put(bm, bigmap_key.key, bigmap_key.value), counter |-> cnt]

BigmapInit ==
    /\ \E call \in BuilderCalls :
          /\ builder = call[1]
          /\ name = call[2]
          /\ token = call[3]
    /\ bigmap_keys = <<>>
    /\ bigmap = <<>>
    /\ bcounter = 0
    /\ bpc = "build"

\* One iteration of the loop over bigmap_keys that does not raise.
BuildStep ==
    /\ bpc = "build"
    /\ Len(bigmap_keys) < MaxKeys
    /\ \E bigmap_key \in BigmapKeys(builder, name, token) :
          /\ ~build_raises(builder, name, bigmap_key)
          /\ bigmap_keys' = Append(bigmap_keys, bigmap_key)
          /\ CASE builder = "get_hen_bigmap" ->
                     /\ bigmap' = get_hen_bigmap(name, bigmap, bigmap_key)
                     /\ bcounter' = bcounter
               [] builder = "get_objktcom_bigmap" ->
                     /\ bigmap' = get_objktcom_bigmap(name, token, bigmap, bigmap_key)
                     /\ bcounter' = bcounter
               [] builder = "get_fxhash_bigmap" ->
                     /\ bigmap' = get_fxhash_bigmap(name, bigmap, bigmap_key)
                     /\ bcounter' = bcounter
               [] OTHER ->
                     /\ bigmap' =
                            get_token_bigmap(token, bigmap, bcounter, bigmap_key).bigmap
                     /\ bcounter' =
                            get_token_bigmap(token, bigmap, bcounter, bigmap_key).counter
    /\ UNCHANGED <<builder, name, token, bpc>>
    /\ UNCHANGED notBigmap

\* An iteration that raises: the exception leaves the builder.
BuildRaises ==
    /\ bpc = "build"
    /\ Len(bigmap_keys) < MaxKeys
    /\ \E bigmap_key \in BigmapKeys(builder, name, token) :
          /\ build_raises(builder, name, bigmap_key)
          /\ bigmap_keys' = Append(bigmap_keys, bigmap_key)
    /\ bpc' = "failed"
    /\ UNCHANGED <<builder, name, token, bigmap, bcounter>>
    /\ UNCHANGED notBigmap

\* The list is exhausted: return bigmap.
BuildReturn ==
    /\ bpc = "build"
    /\ bpc' = "returned"
    /\ UNCHANGED <<builder, name, token, bigmap_keys, bigmap, bcounter>>
    /\ UNCHANGED notBigmap

BigmapNext ==
    \/ BuildStep
    \/ BuildRaises
    \/ BuildReturn

\* The variables of a part of the model that a specification leaves alone.
FetchOff ==
    /\ fn = "" /\ type = "" /\ per_batch = 0 /\ remote = <<>> /\ disk = <<>>
    /\ ci = 0 /\ counter = 0 /\ transactions = <<>> /\ pc = "off" /\ runNo = 0
    /\ prior = "" /\ prevResult = <<>> /\ event = NoEvent /\ hits = 0

BigmapOff ==
    /\ builder = "" /\ name = "" /\ token = "" /\ bigmap_keys = <<>>
    /\ bigmap = <<>> /\ bcounter = 0 /\ bpc = "off"

(***************************************************************************)
(* The account extractors: extract_artist_accounts,                        *)
(* extract_collector_accounts and get_patron_accounts, in the order the    *)
(* scripts call them. A dictionary of accounts is the sequence of its      *)
(* values in insertion order; an account's key is its wallet_id.           *)
(***************************************************************************)
\* The largest number of transactions the extractors of one run are given.
MaxTx == 3
\* The time stamps of the transactions; a time stamp is held as a number.
Times == {1, 2}

Wallets == {"tz1a", "tz1b", "tz1c", "KT1c"}

\* wallet_id.startswith("tz")
startswith_tz(wallet_id) == wallet_id \in {"tz1a", "tz1b", "tz1c"}

\* datetime.strptime(timestamp, "%Y-%m-%dT%H:%M:%SZ"): the instant of a time
\* stamp, which the model holds as a number already.
get_datetime_from_timestamp(timestamp) == timestamp

\* The divisor of the amounts, 1e6.
MicroUnits == 1000000

\* int(text) for the numbers the bigmaps hold as text.
int(text) ==
    CASE text = "0" -> 0
      [] text = "1000000" -> 1000000
      [] text = "2000000" -> 2000000
      [] text = "3000000" -> 3000000

\* amount / 1e6; the amounts of the model are whole multiples of 1e6, for
\* which the float division is exact.
tez(amount) == amount \div MicroUnits

\* The registries bigmap get_hen_bigmap("registries") built.
registries_bigmap == ("tz1a" :> [user |-> "alice", active |-> TRUE])

\* The dictionary get_tezos_wallets returned.
tezos_wallets ==
    ("tz1a" :> [type |-> "user", address |-> "tz1a", alias |-> "A"]) @@
    ("tz1b" :> [type |-> "user", address |-> "tz1b"])

\* The swaps bigmap get_hen_bigmap("swaps") built.
swaps_bigmap ==
    ("1" :> [issuer |-> "tz1b", objkt_id |-> "11", xtz_per_objkt |-> "1000000",
             active |-> TRUE]) @@
    ("2" :> [issuer |-> "tz1b", objkt_id |-> "22", xtz_per_objkt |-> "3000000",
             active |-> TRUE])

\* The swap ids of the collect transactions; the swaps bigmap has no swap 9.
SwapIds == {"1", "2", "9"}

\* wallet_id in accounts
Has(accounts, wallet_id) ==
    \E i \in DOMAIN accounts : accounts[i].wallet_id = wallet_id

\* accounts[wallet_id]
Get(accounts, wallet_id) ==
    accounts[CHOOSE i \in DOMAIN accounts : accounts[i].wallet_id = wallet_id]

\* accounts[wallet_id] = account, for a wallet_id already in accounts
Replace(accounts, wallet_id, account) ==
    [i \in DOMAIN accounts |->
        IF accounts[i].wallet_id = wallet_id THEN account ELSE accounts[i]]

RECURSIVE sum(_)
\* sum(values)
sum(values) == IF values = <<>> THEN 0 ELSE Head(values) + sum(Tail(values))

\* The alias of a new account: the registries name, else the wallet alias,
\* else the empty string.
alias_of(wallet_id) ==
    IF wallet_id \in DOMAIN registries_bigmap
    THEN registries_bigmap[wallet_id].user
    ELSE IF "alias" \in DOMAIN tezos_wallets[wallet_id]
         THEN tezos_wallets[wallet_id].alias
         ELSE ""

\* tezos_wallets[wallet_id] raises KeyError.
alias_raises(wallet_id) ==
    /\ wallet_id \notin DOMAIN registries_bigmap
    /\ wallet_id \notin DOMAIN tezos_wallets

\* The mint transactions get_all_transactions("mint") can return after the
\* ones the loop went through: one contract, increasing time stamps, a new
\* token id each.
MintTransactions ==
    {[timestamp |-> t, initiator |-> [address |-> w],
      parameter |-> [value |-> [token_id |-> Len(mint_transactions) + 1]]] :
        w \in Wallets,
        t \in {u \in Times :
                  \A i \in DOMAIN mint_transactions :
                      mint_transactions[i].timestamp <= u}}

\* The value of a collect parameter: the first marketplace contract takes a
\* dictionary, the second the swap id alone.
CollectParameter(swap) ==
    IF swap = "1"
    THEN [isdict |-> TRUE, swap_id |-> swap, objkt_amount |-> "1"]
    ELSE [isdict |-> FALSE, scalar |-> swap]

\* The collect transactions get_all_transactions("collect") can return: the
\* lists of two contracts one after the other, so the time stamps need not
\* increase; the amount paid is the price of the swap.
CollectTransactions ==
    {[timestamp |-> t, sender |-> [address |-> w],
      amount |-> IF swap \in DOMAIN swaps_bigmap
                 THEN int(swaps_bigmap[swap].xtz_per_objkt)
                 ELSE 1000000,
      parameter |-> [value |-> CollectParameter(swap)]] :
        w \in Wallets, t \in Times, swap \in SwapIds}

KeepsFirstObjkt(accounts, transaction) ==
    LET wallet_id == transaction.initiator.address
        objkt_id == transaction.parameter.value.token_id
    IN  IF ~startswith_tz(wallet_id) THEN accounts
        ELSE IF ~Has(accounts, wallet_id)
        THEN Append(accounts,
                 [order |-> Len(accounts) + 1, type |-> "artist",
                  wallet_id |-> wallet_id, alias |-> "", reported |-> FALSE,
                  first_objkt |-> [id |-> objkt_id,
                                   timestamp |-> transaction.timestamp],
                  last_objkt |-> [id |-> objkt_id,
                                  timestamp |-> transaction.timestamp],
                  first_interaction |-> [type |-> "mint",
                                         timestamp |-> transaction.timestamp],
                  minted_objkts |-> <<objkt_id>>,
                  money_spent |-> <<>>, total_money_spent |-> 0])
        ELSE Replace(accounts, wallet_id,
                 [Get(accounts, wallet_id) EXCEPT
                     !.minted_objkts = Append(@, objkt_id)])

\* The body of extract_artist_accounts' loop: the artists after it.
extract_artist_accounts(accounts, transaction) ==
    LET wallet_id == transaction.initiator.address
        objkt_id == transaction.parameter.value.token_id
    IN  IF ~startswith_tz(wallet_id) THEN accounts
        ELSE IF ~Has(accounts, wallet_id)
        THEN Append(accounts,
                 [order |-> Len(accounts) + 1,
                  type |-> "artist",
                  wallet_id |-> wallet_id,
                  alias |-> alias_of(wallet_id),
                  reported |-> FALSE,
                  first_objkt |-> [id |-> objkt_id,
                                   timestamp |-> transaction.timestamp],
                  last_objkt |-> [id |-> objkt_id,
                                  timestamp |-> transaction.timestamp],
                  first_interaction |-> [type |-> "mint",
                                         timestamp |-> transaction.timestamp],
                  minted_objkts |-> <<objkt_id>>,
                  money_spent |-> <<>>,
                  total_money_spent |-> 0])
        ELSE LET artist == Get(accounts, wallet_id)
             IN  Replace(accounts, wallet_id,
                     [artist EXCEPT
                         !.last_objkt = [id |-> objkt_id,
                                         timestamp |-> transaction.timestamp],
                         !.minted_objkts = Append(@, objkt_id)])

\* The swap id of a collect transaction (a first sighting reads it).
swap_id_of(transaction) ==
    LET parameters == transaction.parameter.value
    IN  IF parameters.isdict THEN parameters.swap_id ELSE parameters.scalar

\* Whether the body of extract_collector_accounts' loop raises KeyError.
collect_raises(accounts, transaction) ==
    LET wallet_id == transaction.sender.address
    IN  /\ startswith_tz(wallet_id)
        /\ ~Has(accounts, wallet_id)
        /\ \/ alias_raises(wallet_id)
           \/ swap_id_of(transaction) \notin DOMAIN swaps_bigmap

\* The body of extract_collector_accounts' loop: the collectors after it.
\* swap is the value of the local variable swap_id before the iteration: a
\* first sighting sets it, a later sighting uses what an earlier iteration
\* left in it.
extract_collector_accounts(accounts, transaction, swap) ==
    LET wallet_id == transaction.sender.address
    IN  IF ~startswith_tz(wallet_id) THEN accounts
        ELSE IF ~Has(accounts, wallet_id)
        THEN Append(accounts,
                 [order |-> Len(accounts) + 1,
                  type |-> "collector",
                  wallet_id |-> wallet_id,
                  alias |-> alias_of(wallet_id),
                  reported |-> FALSE,
                  first_collect |->
                      [objkt_id |-> swaps_bigmap[swap_id_of(transaction)].objkt_id,
                       timestamp |-> transaction.timestamp],
                  last_collect |->
                      [objkt_id |-> swaps_bigmap[swap_id_of(transaction)].objkt_id,
                       timestamp |-> transaction.timestamp],
                  first_interaction |-> [type |-> "collect",
                                         timestamp |-> transaction.timestamp],
                  money_spent |-> <<tez(transaction.amount)>>])
        ELSE LET collector == Get(accounts, wallet_id)
             IN  Replace(accounts, wallet_id,
                     [collector EXCEPT
                         !.last_collect =
                             ("id" :> swaps_bigmap[swap].objkt_id) @@
                             ("timestamp" :> transaction.timestamp) @@ @,
                         !.money_spent = Append(@, tez(transaction.amount))])

\* The local variable swap_id after the body of the loop.
swap_id_after(accounts, transaction, swap) ==
    IF startswith_tz(transaction.sender.address)
         /\ ~Has(accounts, transaction.sender.address)
    THEN swap_id_of(transaction)
    ELSE swap

TotalIsCount(accounts) ==
    [i \in DOMAIN accounts |->
        ("total_money_spent" :> Len(accounts[i].money_spent)) @@ accounts[i]]

\* for collector in collectors.values():
\*     collector["total_money_spent"] = sum(collector["money_spent"])
collector_totals(accounts) ==
    [i \in DOMAIN accounts |->
        ("total_money_spent" :> sum(accounts[i].money_spent)) @@ accounts[i]]

KeepsArtistTotal(artist, collector) ==
    ("first_collect" :> collector.first_collect) @@
    ("last_collect" :> collector.last_collect) @@
    ("money_spent" :> collector.money_spent) @@ artist

CollectWinsTie(artist, collector) ==
    LET merged == ("first_collect" :> collector.first_collect) @@
                  ("last_collect" :> collector.last_collect) @@
                  ("money_spent" :> collector.money_spent) @@
                  ("total_money_spent" :> collector.total_money_spent) @@
                  artist
    IN  IF merged.first_collect.timestamp <= merged.first_objkt.timestamp
        THEN [merged EXCEPT
                 !.first_interaction = [type |-> "collect",
                                        timestamp |-> merged.first_collect.timestamp]]
        ELSE merged

\* The artist branch of get_patron_accounts' loop: the artist after it.
merge_collector(artist, collector) ==
    LET merged == ("first_collect" :> collector.first_collect) @@
                  ("last_collect" :> collector.last_collect) @@
                  ("money_spent" :> collector.money_spent) @@
                  ("total_money_spent" :> collector.total_money_spent) @@
                  artist
        first_objkt_date ==
            get_datetime_from_timestamp(merged.first_objkt.timestamp)
        first_collect_date ==
            get_datetime_from_timestamp(merged.first_collect.timestamp)
    IN  IF first_collect_date < first_objkt_date
        THEN [merged EXCEPT
                 !.first_interaction = [type |-> "collect",
                                        timestamp |-> merged.first_collect.timestamp]]
        ELSE merged

\* get_patron_accounts(artists, collectors): the three dictionaries after the
\* call. No wallet is twice in collectors, so the iterations of the loop do
\* not depend on one another.
get_patron_accounts(artist_accounts, collector_accounts) ==
    LET typed == [i \in DOMAIN collector_accounts |->
                     [collector_accounts[i] EXCEPT
                         !.type = IF Has(artist_accounts, collector_accounts[i].wallet_id)
                                  THEN "artist" ELSE "patron"]]
    IN  [artists |->
            [i \in DOMAIN artist_accounts |->
                IF Has(collector_accounts, artist_accounts[i].wallet_id)
                THEN merge_collector(artist_accounts[i],
                         Get(collector_accounts, artist_accounts[i].wallet_id))
                ELSE artist_accounts[i]],
         collectors |-> typed,
         patrons |-> SelectSeq(typed, LAMBDA c : c.type = "patron")]

NoMarket ==
    /\ bid_transactions = <<>>
    /\ ask_transactions = <<>>
    /\ english_auction_transactions = <<>>
    /\ dutch_auction_transactions = <<>>

NoSwap ==
    /\ swap_transactions = <<>>
    /\ swappers = <<>>
    /\ users = <<>>

NTransactions ==
    Len(mint_transactions) + Len(collect_transactions) + Len(swap_transactions)
    + Len(bid_transactions)
    + Len(ask_transactions) + Len(english_auction_transactions)
    + Len(dutch_auction_transactions)

\* The swap transactions get_all_transactions("swap") can return: the lists
\* of two contracts one after the other.
SwapTransactions ==
    {[timestamp |-> t, sender |-> [address |-> w]] : w \in Wallets, t \in Times}

\* The body of extract_swapper_accounts' loop: the swappers after it.
extract_swapper_accounts(accounts, transaction) ==
    LET wallet_id == transaction.sender.address
    IN  IF startswith_tz(wallet_id) /\ ~Has(accounts, wallet_id)
        THEN Append(accounts,
                 [order |-> Len(accounts) + 1,
                  type |-> "swapper",
                  wallet_id |-> wallet_id,
                  alias |-> alias_of(wallet_id),
                  reported |-> FALSE,
                  first_interaction |-> [type |-> "swap",
                                         timestamp |-> transaction.timestamp],
                  money_spent |-> <<>>,
                  total_money_spent |-> 0])
        ELSE accounts

\* only_swappers of get_user_accounts.
only_swappers(artist_accounts, patron_accounts, swapper_accounts) ==
    SelectSeq(swapper_accounts,
              LAMBDA swapper : /\ ~Has(artist_accounts, swapper.wallet_id)
                               /\ ~Has(patron_accounts, swapper.wallet_id))

ArgsortKeepsOrder(dates) ==
    {[i \in DOMAIN dates |-> i]}

\* np.argsort(dates): the orders that sort the dates; numpy's default sort
\* leaves the order of equal dates open.
argsort(dates) ==
    {order \in [DOMAIN dates -> DOMAIN dates] :
        /\ \A i, j \in DOMAIN dates : order[i] = order[j] => i = j
        /\ \A i, j \in DOMAIN dates : i < j => dates[order[i]] <= dates[order[j]]}

RECURSIVE fill_users(_, _, _, _, _)
\* The last loop of get_user_accounts: users[wallet_id] = the account of the
\* first of artists, patrons and only_swappers that has the wallet.
fill_users(sorted_ids, filled, artist_accounts, patron_accounts, swapper_accounts) ==
    IF sorted_ids = <<>> THEN filled
    ELSE LET wallet_id == Head(sorted_ids)
             account == IF Has(artist_accounts, wallet_id)
                        THEN Get(artist_accounts, wallet_id)
                        ELSE IF Has(patron_accounts, wallet_id)
                        THEN Get(patron_accounts, wallet_id)
                        ELSE Get(swapper_accounts, wallet_id)
         IN  fill_users(Tail(sorted_ids),
                        IF Has(filled, wallet_id)
                        THEN Replace(filled, wallet_id, account)
                        ELSE Append(filled, account),
                        artist_accounts, patron_accounts, swapper_accounts)

\* get_user_accounts(artists, patrons, swappers): the dictionaries it can
\* return.
get_user_accounts(artist_accounts, patron_accounts, swapper_accounts) ==
    LET only == only_swappers(artist_accounts, patron_accounts, swapper_accounts)
        combined == artist_accounts \o patron_accounts \o only
        dates == [i \in DOMAIN combined |->
                     get_datetime_from_timestamp(
                         combined[i].first_interaction.timestamp)]
    IN  {fill_users([k \in DOMAIN combined |-> combined[order[k]].wallet_id],
                    <<>>, artist_accounts, patron_accounts, only) :
            order \in argsort(dates)}

\* The scripts' sequence: artists, collectors, swappers, patrons, users
\* (hdaoOwners.py).
HenInit ==
    /\ extractor = "hen"
    /\ mint_transactions = <<>>
    /\ collect_transactions = <<>>
    /\ NoMarket
    /\ NoSwap
    /\ artists = <<>>
    /\ collectors = <<>>
    /\ patrons = <<>>
    /\ swap_id = "unbound"
    /\ apc = "extract_artist_accounts"

\* One iteration of extract_artist_accounts' loop.
MintStep ==
    /\ apc = "extract_artist_accounts"
    /\ NTransactions < MaxTx
    /\ \E transaction \in MintTransactions :
          /\ ~(startswith_tz(transaction.initiator.address)
                 /\ ~Has(artists, transaction.initiator.address)
                 /\ alias_raises(transaction.initiator.address))
          /\ mint_transactions' = Append(mint_transactions, transaction)
          /\ artists' = extract_artist_accounts(artists, transaction)
    /\ UNCHANGED <<extractor, collect_transactions, marketVars, collectors,
                   patrons, swap_id, apc>>
    /\ UNCHANGED swapVars
    /\ UNCHANGED notAccounts

\* An iteration of extract_artist_accounts' loop raises KeyError: the
\* initiator is a new artist that is neither in the registries bigmap nor in
\* tezos_wallets.
MintRaises ==
    /\ apc = "extract_artist_accounts"
    /\ NTransactions < MaxTx
    /\ \E transaction \in MintTransactions :
          /\ startswith_tz(transaction.initiator.address)
          /\ ~Has(artists, transaction.initiator.address)
          /\ alias_raises(transaction.initiator.address)
          /\ mint_transactions' = Append(mint_transactions, transaction)
    /\ apc' = "failed"
    /\ UNCHANGED <<extractor, collect_transactions, marketVars, artists,
                   collectors, patrons, swap_id>>
    /\ UNCHANGED swapVars
    /\ UNCHANGED notAccounts

\* extract_artist_accounts returns; extract_collector_accounts is called.
ArtistsReturn ==
    /\ apc = "extract_artist_accounts"
    /\ apc' = "extract_collector_accounts"
    /\ UNCHANGED <<extractor, mint_transactions, collect_transactions,
                   marketVars, artists, collectors, patrons, swap_id>>
    /\ UNCHANGED swapVars
    /\ UNCHANGED notAccounts

\* One iteration of extract_collector_accounts' first loop.
CollectStep ==
    /\ apc = "extract_collector_accounts"
    /\ NTransactions < MaxTx
    /\ \E transaction \in CollectTransactions :
          /\ ~collect_raises(collectors, transaction)
          /\ collect_transactions' = Append(collect_transactions, transaction)
          /\ collectors' = extract_collector_accounts(collectors, transaction, swap_id)
          /\ swap_id' = swap_id_after(collectors, transaction, swap_id)
    /\ UNCHANGED <<extractor, mint_transactions, marketVars, artists, patrons,
                   apc>>
    /\ UNCHANGED swapVars
    /\ UNCHANGED notAccounts

\* An iteration of extract_collector_accounts' first loop raises KeyError,
\* and so does extract_collector_accounts.
CollectRaises ==
    /\ apc = "extract_collector_accounts"
    /\ NTransactions < MaxTx
    /\ \E transaction \in CollectTransactions :
          /\ collect_raises(collectors, transaction)
          /\ collect_transactions' = Append(collect_transactions, transaction)
    /\ apc' = "failed"
    /\ UNCHANGED <<extractor, mint_transactions, marketVars, artists,
                   collectors, patrons, swap_id>>
    /\ UNCHANGED swapVars
    /\ UNCHANGED notAccounts

\* extract_collector_accounts' second loop and its return.
CollectorsReturn ==
    /\ apc = "extract_collector_accounts"
    /\ collectors' = collector_totals(collectors)
    /\ apc' = "extract_swapper_accounts"
    /\ UNCHANGED <<extractor, mint_transactions, collect_transactions,
                   marketVars, artists, patrons, swap_id>>
    /\ UNCHANGED swapVars
    /\ UNCHANGED notAccounts

\* The call of get_patron_accounts.
GetPatrons ==
    /\ apc = "get_patron_accounts"
    /\ artists' = get_patron_accounts(artists, collectors).artists
    /\ collectors' = get_patron_accounts(artists, collectors).collectors
    /\ patrons' = get_patron_accounts(artists, collectors).patrons
    /\ apc' = "get_user_accounts"
    /\ UNCHANGED <<extractor, mint_transactions, collect_transactions,
                   marketVars, swap_id>>
    /\ UNCHANGED swapVars
    /\ UNCHANGED notAccounts

\* One iteration of extract_swapper_accounts' loop.
SwapStep ==
    /\ apc = "extract_swapper_accounts"
    /\ NTransactions < MaxTx
    /\ \E transaction \in SwapTransactions :
          /\ ~(startswith_tz(transaction.sender.address)
                 /\ ~Has(swappers, transaction.sender.address)
                 /\ alias_raises(transaction.sender.address))
          /\ swap_transactions' = Append(swap_transactions, transaction)
          /\ swappers' = extract_swapper_accounts(swappers, transaction)
    /\ UNCHANGED <<extractor, mint_transactions, collect_transactions,
                   marketVars, artists, collectors, patrons, swap_id, users, apc>>
    /\ UNCHANGED notAccounts

\* An iteration of extract_swapper_accounts' loop raises KeyError.
SwapRaises ==
    /\ apc = "extract_swapper_accounts"
    /\ NTransactions < MaxTx
    /\ \E transaction \in SwapTransactions :
          /\ startswith_tz(transaction.sender.address)
          /\ ~Has(swappers, transaction.sender.address)
          /\ alias_raises(transaction.sender.address)
          /\ swap_transactions' = Append(swap_transactions, transaction)
    /\ apc' = "failed"
    /\ UNCHANGED <<extractor, mint_transactions, collect_transactions,
                   marketVars, artists, collectors, patrons, swap_id,
                   swappers, users>>
    /\ UNCHANGED notAccounts

\* extract_swapper_accounts returns; get_patron_accounts is called.
SwappersReturn ==
    /\ apc = "extract_swapper_accounts"
    /\ apc' = "get_patron_accounts"
    /\ UNCHANGED <<extractor, mint_transactions, collect_transactions,
                   marketVars, artists, collectors, patrons, swap_id, swapVars>>
    /\ UNCHANGED notAccounts

\* The call of get_user_accounts.
GetUsers ==
    /\ apc = "get_user_accounts"
    /\ users' \in get_user_accounts(artists, patrons, swappers)
    /\ apc' = "done"
    /\ UNCHANGED <<extractor, mint_transactions, collect_transactions,
                   marketVars, artists, collectors, patrons, swap_id,
                   swap_transactions, swappers>>
    /\ UNCHANGED notAccounts

(***************************************************************************)
(* extract_objktcom_collector_accounts and                                 *)
(* extract_fxhash_collector_accounts: one loop for each list of            *)
(* transactions, then the loop of the totals.                              *)
(***************************************************************************)
\* The objkt.com bids bigmap get_objktcom_bigmap("bids") built.
bids_bigmap ==
    ("1" :> [issuer |-> "tz1a", objkt_id |-> "11", xtz_per_objkt |-> "1000000"]) @@
    ("2" :> [issuer |-> "tz1b", objkt_id |-> "22", xtz_per_objkt |-> "2000000"]) @@
    ("3" :> [issuer |-> "KT1c", objkt_id |-> "11", xtz_per_objkt |-> "1000000"])

\* The objkt.com asks bigmap.
asks_bigmap ==
    ("1" :> [issuer |-> "tz1b", objkt_id |-> "11", xtz_per_objkt |-> "1000000"]) @@
    ("2" :> [issuer |-> "tz1b", objkt_id |-> "22", xtz_per_objkt |-> "3000000"])

\* The objkt.com english auctions bigmap.
english_auctions_bigmap ==
    ("1" :> [highest_bidder |-> "tz1a", objkt_id |-> "11",
             current_price |-> "3000000"]) @@
    ("2" :> [highest_bidder |-> "tz1b", objkt_id |-> "22",
             current_price |-> "0"]) @@
    ("3" :> [highest_bidder |-> "KT1c", objkt_id |-> "11",
             current_price |-> "1000000"])

\* The objkt.com dutch auctions bigmap.
dutch_auctions_bigmap ==
    ("1" :> [issuer |-> "tz1b", objkt_id |-> "11"]) @@
    ("2" :> [issuer |-> "tz1b", objkt_id |-> "22"])

\* The time stamps a list of one kind of transactions can go on with.
LaterTimes(gone) ==
    {t \in Times :
        \A i \in DOMAIN gone : gone[i].timestamp <= t}

\* The transactions that fulfil a bid or conclude an english auction: the
\* buyer and the price are in the bigmap entry the parameter names.
SettleTransactions(entries, gone) ==
    {[timestamp |-> t, sender |-> [address |-> "tz1b"], amount |-> 0,
      parameter |-> [value |-> id]] :
        id \in DOMAIN entries, t \in LaterTimes(gone)}

\* The transactions that fulfil an ask or buy from a dutch auction: the
\* sender is the buyer and pays the amount.
BuyTransactions(entries, gone) ==
    {[timestamp |-> t, sender |-> [address |-> w],
      amount |-> IF id = "1" THEN 1000000 ELSE 3000000,
      parameter |-> [value |-> id]] :
        w \in Wallets, id \in DOMAIN entries, t \in LaterTimes(gone)}

\* The fxhash mint and collect transactions.
FxhashTransactions(gone) ==
    {[timestamp |-> t, sender |-> [address |-> w], amount |-> a] :
        w \in Wallets, a \in {1000000, 3000000},
        t \in LaterTimes(gone)}

\* A new objkt.com collector.
objktcom_collector(wallet_id, objkt_id, timestamp, kind) ==
    [type |-> "collector",
     wallet_id |-> wallet_id,
     alias |-> "",
     reported |-> FALSE,
     first_collect |-> [id |-> objkt_id, timestamp |-> timestamp],
     last_collect |-> [id |-> objkt_id, timestamp |-> timestamp],
     first_interaction |-> [type |-> kind, timestamp |-> timestamp],
     bid_objkts |-> <<>>, bid_money_spent |-> <<>>, bid_timestamps |-> <<>>,
     ask_objkts |-> <<>>, ask_money_spent |-> <<>>, ask_timestamps |-> <<>>,
     english_auction_objkts |-> <<>>, english_auction_money_spent |-> <<>>,
     english_auction_timestamps |-> <<>>,
     dutch_auction_objkts |-> <<>>, dutch_auction_money_spent |-> <<>>,
     dutch_auction_timestamps |-> <<>>]

\* A new fxhash collector.
fxhash_collector(wallet_id, timestamp, kind) ==
    [type |-> "collector",
     wallet_id |-> wallet_id,
     alias |-> "",
     reported |-> FALSE,
     first_collect |-> [timestamp |-> timestamp],
     last_collect |-> [timestamp |-> timestamp],
     first_interaction |-> [type |-> kind, timestamp |-> timestamp],
     mint_money_spent |-> <<>>, mint_timestamps |-> <<>>,
     collect_money_spent |-> <<>>, collect_timestamps |-> <<>>]

LaterChannelWinsTie(collector, item, timestamp, kind) ==
    LET date == get_datetime_from_timestamp(timestamp)
        earlier ==
            IF date <= get_datetime_from_timestamp(collector.first_collect.timestamp)
            THEN [collector EXCEPT
                     !.first_collect = item @@ ("timestamp" :> timestamp),
                     !.first_interaction = [type |-> kind, timestamp |-> timestamp]]
            ELSE collector
    IN  IF date > get_datetime_from_timestamp(collector.last_collect.timestamp)
        THEN [earlier EXCEPT !.last_collect = item @@ ("timestamp" :> timestamp)]
        ELSE earlier

\* The two comparisons of dates of the ask, auction and fxhash collect loops.
\* item is the fields of first_collect and last_collect the loop writes
\* besides the time stamp.
compare_dates(collector, item, timestamp, kind) ==
    LET date == get_datetime_from_timestamp(timestamp)
        first_collect_date ==
            get_datetime_from_timestamp(collector.first_collect.timestamp)
        last_collect_date ==
            get_datetime_from_timestamp(collector.last_collect.timestamp)
        earlier ==
            IF date < first_collect_date
            THEN [collector EXCEPT
                     !.first_collect = item @@ ("timestamp" :> timestamp),
                     !.first_interaction = [type |-> kind, timestamp |-> timestamp]]
            ELSE collector
    IN  IF date > last_collect_date
        THEN [earlier EXCEPT !.last_collect = item @@ ("timestamp" :> timestamp)]
        ELSE earlier

\* The accounts with the account of wallet_id made if it is new.
with_account(accounts, wallet_id, new) ==
    IF Has(accounts, wallet_id) THEN accounts ELSE Append(accounts, new)

BidLoopOfAnyIssuer(accounts, transaction) ==
    LET bid == bids_bigmap[transaction.parameter.value]
        made == with_account(accounts, bid.issuer,
                    objktcom_collector(bid.issuer, bid.objkt_id,
                                       transaction.timestamp, "bid"))
    IN  Replace(made, bid.issuer,
            [Get(made, bid.issuer) EXCEPT
                !.last_collect = [id |-> bid.objkt_id,
                                  timestamp |-> transaction.timestamp],
                !.bid_objkts = Append(@, bid.objkt_id),
                !.bid_money_spent = Append(@, tez(int(bid.xtz_per_objkt))),
                !.bid_timestamps = Append(@, transaction.timestamp)])

\* The body of the loop over bid_transactions.
bid_loop(accounts, transaction) ==
    LET bid == bids_bigmap[transaction.parameter.value]
        collector_wallet_id == bid.issuer
        objkt_id == bid.objkt_id
        amount == tez(int(bid.xtz_per_objkt))
        made == with_account(accounts, collector_wallet_id,
                    objktcom_collector(collector_wallet_id, objkt_id,
                                       transaction.timestamp, "bid"))
    IN  IF ~startswith_tz(collector_wallet_id) THEN accounts
        ELSE Replace(made, collector_wallet_id,
                 [Get(made, collector_wallet_id) EXCEPT
                     !.last_collect = [id |-> objkt_id,
                                       timestamp |-> transaction.timestamp],
                     !.bid_objkts = Append(@, objkt_id),
                     !.bid_money_spent = Append(@, amount),
                     !.bid_timestamps = Append(@, transaction.timestamp)])

\* The body of the loop over ask_transactions.
ask_loop(accounts, transaction) ==
    LET ask == asks_bigmap[transaction.parameter.value]
        collector_wallet_id == transaction.sender.address
        objkt_id == ask.objkt_id
        amount == tez(transaction.amount)
        made == with_account(accounts, collector_wallet_id,
                    objktcom_collector(collector_wallet_id, objkt_id,
                                       transaction.timestamp, "ask"))
    IN  IF ~startswith_tz(collector_wallet_id) THEN accounts
        ELSE Replace(made, collector_wallet_id,
                 [compare_dates(Get(made, collector_wallet_id),
                                [id |-> objkt_id], transaction.timestamp, "ask")
                  EXCEPT
                     !.ask_objkts = Append(@, objkt_id),
                     !.ask_money_spent = Append(@, amount),
                     !.ask_timestamps = Append(@, transaction.timestamp)])

\* The body of the loop over english_auction_transactions.
english_auction_loop(accounts, transaction) ==
    LET auction == english_auctions_bigmap[transaction.parameter.value]
        collector_wallet_id == auction.highest_bidder
        amount == tez(int(auction.current_price))
        objkt_id == auction.objkt_id
        made == with_account(accounts, collector_wallet_id,
                    objktcom_collector(collector_wallet_id, objkt_id,
                                       transaction.timestamp, "english_auction"))
    IN  IF amount = 0 THEN accounts
        ELSE IF ~startswith_tz(collector_wallet_id) THEN accounts
        ELSE Replace(made, collector_wallet_id,
                 [compare_dates(Get(made, collector_wallet_id),
                                [id |-> objkt_id], transaction.timestamp,
                                "english_auction")
                  EXCEPT
                     !.english_auction_objkts = Append(@, objkt_id),
                     !.english_auction_money_spent = Append(@, amount),
                     !.english_auction_timestamps =
                         Append(@, transaction.timestamp)])

\* The body of the loop over dutch_auction_transactions.
dutch_auction_loop(accounts, transaction) ==
    LET auction == dutch_auctions_bigmap[transaction.parameter.value]
        collector_wallet_id == transaction.sender.address
        amount == tez(transaction.amount)
        objkt_id == auction.objkt_id
        made == with_account(accounts, collector_wallet_id,
                    objktcom_collector(collector_wallet_id, objkt_id,
                                       transaction.timestamp, "dutch_auction"))
    IN  IF ~startswith_tz(collector_wallet_id) THEN accounts
        ELSE Replace(made, collector_wallet_id,
                 [compare_dates(Get(made, collector_wallet_id),
                                [id |-> objkt_id], transaction.timestamp,
                                "dutch_auction")
                  EXCEPT
                     !.dutch_auction_objkts = Append(@, objkt_id),
                     !.dutch_auction_money_spent = Append(@, amount),
                     !.dutch_auction_timestamps =
                         Append(@, transaction.timestamp)])

\* The alias the loop of the totals leaves in an account.
final_alias(collector) ==
    IF collector.wallet_id \in DOMAIN registries_bigmap
    THEN registries_bigmap[collector.wallet_id].user
    ELSE IF "alias" \in DOMAIN tezos_wallets[collector.wallet_id]
         THEN tezos_wallets[collector.wallet_id].alias
         ELSE collector.alias

\* Whether the last loop of a market extractor raises KeyError: a collector
\* is neither in the registries bigmap nor in tezos_wallets.
totals_raise(accounts) ==
    \E i \in DOMAIN accounts : alias_raises(accounts[i].wallet_id)

\* The last loop of extract_objktcom_collector_accounts.
objktcom_totals(accounts) ==
    [i \in DOMAIN accounts |->
        ("total_money_spent" :>
            sum(accounts[i].bid_money_spent) + sum(accounts[i].ask_money_spent)
            + sum(accounts[i].english_auction_money_spent)
            + sum(accounts[i].dutch_auction_money_spent)) @@
        ("items" :>
            Len(accounts[i].bid_money_spent) + Len(accounts[i].ask_money_spent)
            + Len(accounts[i].english_auction_money_spent)
            + Len(accounts[i].dutch_auction_money_spent)) @@
        [accounts[i] EXCEPT !.alias = final_alias(accounts[i])]]

\* The body of extract_fxhash_collector_accounts' loop over mint_transactions.
fxhash_mint_loop(accounts, transaction) ==
    LET collector_wallet_id == transaction.sender.address
        amount == tez(transaction.amount)
        made == with_account(accounts, collector_wallet_id,
                    fxhash_collector(collector_wallet_id,
                                     transaction.timestamp, "mint"))
    IN  IF ~startswith_tz(collector_wallet_id) THEN accounts
        ELSE Replace(made, collector_wallet_id,
                 [Get(made, collector_wallet_id) EXCEPT
                     !.last_collect = [timestamp |-> transaction.timestamp],
                     !.mint_money_spent = Append(@, amount),
                     !.mint_timestamps = Append(@, transaction.timestamp)])

\* The body of extract_fxhash_collector_accounts' loop over
\* collect_transactions.
fxhash_collect_loop(accounts, transaction) ==
    LET collector_wallet_id == transaction.sender.address
        amount == tez(transaction.amount)
        made == with_account(accounts, collector_wallet_id,
                    fxhash_collector(collector_wallet_id,
                                     transaction.timestamp, "collect"))
    IN  IF ~startswith_tz(collector_wallet_id) THEN accounts
        ELSE Replace(made, collector_wallet_id,
                 [compare_dates(Get(made, collector_wallet_id),
                                <<>>, transaction.timestamp, "collect")
                  EXCEPT
                     !.collect_money_spent = Append(@, amount),
                     !.collect_timestamps = Append(@, transaction.timestamp)])

\* The last loop of extract_fxhash_collector_accounts.
fxhash_totals(accounts) ==
    [i \in DOMAIN accounts |->
        ("total_money_spent" :>
            sum(accounts[i].mint_money_spent)
            + sum(accounts[i].collect_money_spent)) @@
        ("items" :>
            Len(accounts[i].mint_money_spent)
            + Len(accounts[i].collect_money_spent)) @@
        [accounts[i] EXCEPT !.alias = final_alias(accounts[i])]]

\* The call of extract_objktcom_collector_accounts.
ObjktcomInit ==
    /\ extractor = "objktcom"
    /\ mint_transactions = <<>>
    /\ collect_transactions = <<>>
    /\ NoMarket
    /\ NoSwap
    /\ artists = <<>>
    /\ collectors = <<>>
    /\ patrons = <<>>
    /\ swap_id = "unbound"
    /\ apc = "bid_transactions"

\* The call of extract_fxhash_collector_accounts.
FxhashInit ==
    /\ extractor = "fxhash"
    /\ mint_transactions = <<>>
    /\ collect_transactions = <<>>
    /\ NoMarket
    /\ NoSwap
    /\ artists = <<>>
    /\ collectors = <<>>
    /\ patrons = <<>>
    /\ swap_id = "unbound"
    /\ apc = "mint_transactions"

\* One iteration of the loop over bid_transactions.
BidStep ==
    /\ apc = "bid_transactions"
    /\ NTransactions < MaxTx
    /\ \E transaction \in SettleTransactions(bids_bigmap, bid_transactions) :
          /\ bid_transactions' = Append(bid_transactions, transaction)
          /\ collectors' = bid_loop(collectors, transaction)
    /\ UNCHANGED <<extractor, mint_transactions, collect_transactions,
                   ask_transactions, english_auction_transactions,
                   dutch_auction_transactions, artists, patrons, swap_id, apc>>
    /\ UNCHANGED swapVars
    /\ UNCHANGED notAccounts

\* One iteration of the loop over ask_transactions.
AskStep ==
    /\ apc = "ask_transactions"
    /\ NTransactions < MaxTx
    /\ \E transaction \in BuyTransactions(asks_bigmap, ask_transactions) :
          /\ ask_transactions' = Append(ask_transactions, transaction)
          /\ collectors' = ask_loop(collectors, transaction)
    /\ UNCHANGED <<extractor, mint_transactions, collect_transactions,
                   bid_transactions, english_auction_transactions,
                   dutch_auction_transactions, artists, patrons, swap_id, apc>>
    /\ UNCHANGED swapVars
    /\ UNCHANGED notAccounts

\* One iteration of the loop over english_auction_transactions.
EnglishAuctionStep ==
    /\ apc = "english_auction_transactions"
    /\ NTransactions < MaxTx
    /\ \E transaction \in SettleTransactions(english_auctions_bigmap,
                                             english_auction_transactions) :
          /\ english_auction_transactions' =
                 Append(english_auction_transactions, transaction)
          /\ collectors' = english_auction_loop(collectors, transaction)
    /\ UNCHANGED <<extractor, mint_transactions, collect_transactions,
                   bid_transactions, ask_transactions,
                   dutch_auction_transactions, artists, patrons, swap_id, apc>>
    /\ UNCHANGED swapVars
    /\ UNCHANGED notAccounts

\* One iteration of the loop over dutch_auction_transactions.
DutchAuctionStep ==
    /\ apc = "dutch_auction_transactions"
    /\ NTransactions < MaxTx
    /\ \E transaction \in BuyTransactions(dutch_auctions_bigmap,
                                          dutch_auction_transactions) :
          /\ dutch_auction_transactions' =
                 Append(dutch_auction_transactions, transaction)
          /\ collectors' = dutch_auction_loop(collectors, transaction)
    /\ UNCHANGED <<extractor, mint_transactions, collect_transactions,
                   bid_transactions, ask_transactions,
                   english_auction_transactions, artists, patrons, swap_id, apc>>
    /\ UNCHANGED swapVars
    /\ UNCHANGED notAccounts

\* A loop of extract_objktcom_collector_accounts ends and the next begins.
ObjktcomNextLoop ==
    /\ apc \in {"bid_transactions", "ask_transactions",
                "english_auction_transactions"}
    /\ apc' = CASE apc = "bid_transactions" -> "ask_transactions"
                [] apc = "ask_transactions" -> "english_auction_transactions"
                [] apc = "english_auction_transactions" ->
                       "dutch_auction_transactions"
    /\ UNCHANGED <<extractor, mint_transactions, collect_transactions,
                   marketVars, artists, collectors, patrons, swap_id>>
    /\ UNCHANGED swapVars
    /\ UNCHANGED notAccounts

\* The last loop of extract_objktcom_collector_accounts raises KeyError.
ObjktcomRaises ==
    /\ apc = "dutch_auction_transactions"
    /\ totals_raise(collectors)
    /\ apc' = "failed"
    /\ UNCHANGED <<extractor, mint_transactions, collect_transactions,
                   marketVars, artists, collectors, patrons, swap_id>>
    /\ UNCHANGED swapVars
    /\ UNCHANGED notAccounts

\* The last loop of extract_objktcom_collector_accounts and its return.
ObjktcomReturn ==
    /\ apc = "dutch_auction_transactions"
    /\ ~totals_raise(collectors)
    /\ collectors' = objktcom_totals(collectors)
    /\ apc' = "done"
    /\ UNCHANGED <<extractor, mint_transactions, collect_transactions,
                   marketVars, artists, patrons, swap_id>>
    /\ UNCHANGED swapVars
    /\ UNCHANGED notAccounts

\* One iteration of extract_fxhash_collector_accounts' loop over
\* mint_transactions.
FxhashMintStep ==
    /\ apc = "mint_transactions"
    /\ NTransactions < MaxTx
    /\ \E transaction \in FxhashTransactions(mint_transactions) :
          /\ mint_transactions' = Append(mint_transactions, transaction)
          /\ collectors' = fxhash_mint_loop(collectors, transaction)
    /\ UNCHANGED <<extractor, collect_transactions, marketVars, artists,
                   patrons, swap_id, apc>>
    /\ UNCHANGED swapVars
    /\ UNCHANGED notAccounts

\* The loop over mint_transactions ends.
FxhashNextLoop ==
    /\ apc = "mint_transactions"
    /\ apc' = "collect_transactions"
    /\ UNCHANGED <<extractor, mint_transactions, collect_transactions,
                   marketVars, artists, collectors, patrons, swap_id>>
    /\ UNCHANGED swapVars
    /\ UNCHANGED notAccounts

\* One iteration of extract_fxhash_collector_accounts' loop over
\* collect_transactions.
FxhashCollectStep ==
    /\ apc = "collect_transactions"
    /\ NTransactions < MaxTx
    /\ \E transaction \in FxhashTransactions(collect_transactions) :
          /\ collect_transactions' = Append(collect_transactions, transaction)
          /\ collectors' = fxhash_collect_loop(collectors, transaction)
    /\ UNCHANGED <<extractor, mint_transactions, marketVars, artists, patrons,
                   swap_id, apc>>
    /\ UNCHANGED swapVars
    /\ UNCHANGED notAccounts

\* The last loop of extract_fxhash_collector_accounts raises KeyError.
FxhashRaises ==
    /\ apc = "collect_transactions"
    /\ totals_raise(collectors)
    /\ apc' = "failed"
    /\ UNCHANGED <<extractor, mint_transactions, collect_transactions,
                   marketVars, artists, collectors, patrons, swap_id>>
    /\ UNCHANGED swapVars
    /\ UNCHANGED notAccounts

\* The last loop of extract_fxhash_collector_accounts and its return.
FxhashReturn ==
    /\ apc = "collect_transactions"
    /\ ~totals_raise(collectors)
    /\ collectors' = fxhash_totals(collectors)
    /\ apc' = "done"
    /\ UNCHANGED <<extractor, mint_transactions, collect_transactions,
                   marketVars, artists, patrons, swap_id>>
    /\ UNCHANGED swapVars
    /\ UNCHANGED notAccounts

AccountsOff ==
    /\ extractor = "" /\ mint_transactions = <<>> /\ collect_transactions = <<>>
    /\ NoMarket
    /\ NoSwap
    /\ artists = <<>> /\ collectors = <<>> /\ patrons = <<>>
    /\ swap_id = "" /\ apc = "off"

(***************************************************************************)
(* add_accounts_metadata: one lookup of the profile metadata for each      *)
(* account of a slice of the dictionary, tried again once when it raises.  *)
(***************************************************************************)
\* The largest number of accounts in the dictionary.
MaxAccounts == 3

\* The accounts dictionary of n accounts the scripts pass.
AccountsOfSize(n) ==
    [k \in 1..n |->
        [order |-> k, type |-> "artist",
         wallet_id |-> <<"tz1a", "tz1b", "tz1c", "tz1d", "tz1e">>[k],
         alias |-> IF k = 2 THEN "" ELSE "A", reported |-> FALSE]]

\* What get_account_metadata returns when it does not raise: None, or the
\* dictionary of the profile.
Responses ==
    {[none |-> TRUE, metadata |-> [alias |-> "X"]],
     [none |-> FALSE, metadata |-> [alias |-> "X"]],
     [none |-> FALSE, metadata |-> [twitter |-> "t"]],
     [none |-> FALSE, metadata |-> [alias |-> "X", twitter |-> "t"]]}

\* The lookups record no response of a call that raised.
NoResponse == [none |-> TRUE, metadata |-> [alias |-> "X"]]

\* list(accounts.keys())
keys(dictionary) == [k \in DOMAIN dictionary |-> dictionary[k].wallet_id]

\* list[from:to], for indices that are not negative.
slice(list, from, to) ==
    IF from >= to \/ from >= Len(list) THEN <<>>
    ELSE SubSeq(list, from + 1, IF to > Len(list) THEN Len(list) ELSE to)

\* to_account_index after the first statement of add_accounts_metadata.
capped(to, dictionary) ==
    IF to = <<>> THEN Len(dictionary)
    ELSE IF to[1] > Len(dictionary) THEN Len(dictionary) ELSE to[1]

MergesNewFieldsOnly(account, response) ==
    IF response.none THEN account ELSE account @@ response.metadata

\* if metadata is not None: for keyword, value in metadata.items():
\*     account[keyword] = value
merge_metadata(account, response) ==
    IF response.none THEN account ELSE response.metadata @@ account

\* The wallet of the iteration the loop is at.
CurWallet == wallet_ids[index + 1]

\* The call of add_accounts_metadata, up to the loop.
MetadataInit ==
    /\ \E n \in 0..MaxAccounts : account_dict = AccountsOfSize(n)
    /\ given = account_dict
    /\ from_account_index \in 0..(MaxAccounts + 1)
    /\ to_account_index \in {<<>>} \cup {<<n>> : n \in 0..(MaxAccounts + 1)}
    /\ wallet_ids = slice(keys(account_dict), from_account_index,
                          capped(to_account_index, account_dict))
    /\ index = 0
    /\ lookups = <<>>
    /\ mpc = "try"

\* One iteration in which the first call of get_account_metadata returns.
Lookup ==
    /\ mpc = "try"
    /\ index < Len(wallet_ids)
    /\ \E response \in Responses :
          /\ account_dict' =
                 Replace(account_dict, CurWallet,
                         merge_metadata(Get(account_dict, CurWallet), response))
          /\ lookups' = Append(lookups, [wallet_id |-> CurWallet,
                                         raised |-> FALSE,
                                         response |-> response])
    /\ index' = index + 1
    /\ UNCHANGED <<given, from_account_index, to_account_index, wallet_ids, mpc>>
    /\ UNCHANGED notMetadata

\* The first call of get_account_metadata raises: the except branch.
LookupRaises ==
    /\ mpc = "try"
    /\ index < Len(wallet_ids)
    /\ lookups' = Append(lookups, [wallet_id |-> CurWallet, raised |-> TRUE,
                                   response |-> NoResponse])
    /\ mpc' = "except"
    /\ UNCHANGED <<account_dict, given, from_account_index, to_account_index,
                   wallet_ids, index>>
    /\ UNCHANGED notMetadata

\* The call of get_account_metadata in the except branch returns, and the
\* iteration goes on.
SecondLookup ==
    /\ mpc = "except"
    /\ \E response \in Responses :
          /\ account_dict' =
                 Replace(account_dict, CurWallet,
                         merge_metadata(Get(account_dict, CurWallet), response))
          /\ lookups' = Append(lookups, [wallet_id |-> CurWallet,
                                         raised |-> FALSE,
                                         response |-> response])
    /\ index' = index + 1
    /\ mpc' = "try"
    /\ UNCHANGED <<given, from_account_index, to_account_index, wallet_ids>>
    /\ UNCHANGED notMetadata

RaisesAndTriesAgain ==
    /\ mpc = "except"
    /\ lookups' = Append(lookups, [wallet_id |-> CurWallet, raised |-> TRUE,
                                   response |-> NoResponse])
    /\ UNCHANGED <<account_dict, given, from_account_index, to_account_index,
                   wallet_ids, index, mpc>>
    /\ UNCHANGED notMetadata

\* The call of get_account_metadata in the except branch raises, and so does
\* add_accounts_metadata.
SecondLookupRaises ==
    /\ mpc = "except"
    /\ lookups' = Append(lookups, [wallet_id |-> CurWallet, raised |-> TRUE,
                                   response |-> NoResponse])
    /\ mpc' = "raised"
    /\ UNCHANGED <<account_dict, given, from_account_index, to_account_index,
                   wallet_ids, index>>
    /\ UNCHANGED notMetadata

\* The loop is over and add_accounts_metadata returns.
MetadataReturn ==
    /\ mpc = "try"
    /\ index = Len(wallet_ids)
    /\ mpc' = "returned"
    /\ UNCHANGED <<account_dict, given, from_account_index, to_account_index,
                   wallet_ids, index, lookups>>
    /\ UNCHANGED notMetadata

MetadataNext ==
    \/ Lookup
    \/ LookupRaises
    \/ SecondLookup
    \/ SecondLookupRaises
    \/ MetadataReturn

(***************************************************************************)
(* extract_users_connections: the graph of the artists and their           *)
(* collectors. A dictionary of weights is the sequence of its              *)
(* [wallet_id, weight] items in insertion order.                           *)
(***************************************************************************)
\* wallet_id.startswith("KT")
startswith_KT(wallet_id) == wallet_id = "KT1c"

\* The keys of objkt_creators, in the order of the dictionary.
ObjktIds == <<"11", "22">>

\* The dictionaries get_objkt_creators can return.
ObjktCreators ==
    {("11" :> a) @@ ("22" :> b) : a \in {"tz1a", "tz1b"},
                                 b \in {"tz1a", "tz1b", "KT1c"}}

\* The argument users: the wallet ids and aliases of the H=N users.
hen_users == <<[wallet_id |-> "tz1a", alias |-> "alice"]>>

\* The lists of reported users.
ReportedUsers == {<<>>, <<"tz1b", "tz1d">>}

\* The collect transactions of the loop over transactions: the fields it
\* reads.
ConnectTransactions ==
    {[sender |-> [address |-> w], parameter |-> [value |-> CollectParameter(swap)]] :
        w \in Wallets, swap \in SwapIds}

\* The items of objktcom_collectors.items() that can come next: a wallet is
\* a key of the dictionary once, and the extractor made accounts for
\* externally-owned wallets only.
ObjktcomCollectors ==
    {[wallet_id |-> w, alias |-> "oc", bid_objkts |-> b, ask_objkts |-> a,
      english_auction_objkts |-> e, dutch_auction_objkts |-> d] :
        w \in {v \in Wallets : startswith_tz(v) /\ ~Has(objktcom_collectors, v)},
        b \in {<<>>, <<"11">>}, a \in {<<>>, <<"22">>},
        e \in {<<>>}, d \in {<<>>, <<"11">>}}

\* users[wallet_id]["alias"] if wallet_id in users, else the given alias.
connection_alias(wallet_id, otherwise) ==
    IF Has(hen_users, wallet_id) THEN Get(hen_users, wallet_id).alias
    ELSE otherwise

\* A new entry of users_connections.
new_connection(wallet_id, alias, artist_weights, n) ==
    [wallet_id |-> wallet_id, alias |-> alias, artists |-> artist_weights,
     collectors |-> <<>>, reported |-> FALSE, counter |-> n]

\* weights[wallet_id] += 1, or weights[wallet_id] = 1 for a new key.
add_one(weights, wallet_id) ==
    IF Has(weights, wallet_id)
    THEN Replace(weights, wallet_id,
             [Get(weights, wallet_id) EXCEPT !.weight = @ + 1])
    ELSE Append(weights, [wallet_id |-> wallet_id, weight |-> 1])

\* The body of the loop over objkt_creators.values(): [users_connections,
\* user_counter] after it.
add_artist(state, artist_wallet_id) ==
    IF startswith_KT(artist_wallet_id) THEN state
    ELSE IF ~Has(state.users_connections, artist_wallet_id)
    THEN [users_connections |->
              Append(state.users_connections,
                  new_connection(artist_wallet_id,
                      connection_alias(artist_wallet_id, ""), <<>>,
                      state.user_counter)),
          user_counter |-> state.user_counter + 1]
    ELSE state

OneWayConnection(state, artist_wallet_id, collector_wallet_id, alias) ==
    LET artist == Get(state.users_connections, artist_wallet_id)
        added == Replace(state.users_connections, artist_wallet_id,
                     [artist EXCEPT !.collectors = add_one(@, collector_wallet_id)])
    IN  IF Has(added, collector_wallet_id)
        THEN [users_connections |-> added, user_counter |-> state.user_counter]
        ELSE [users_connections |->
                  Append(added,
                      new_connection(collector_wallet_id, alias,
                          <<[wallet_id |-> artist_wallet_id, weight |-> 1]>>,
                          state.user_counter)),
              user_counter |-> state.user_counter + 1]

\* Add the collector to the artist's collectors and the artist to the
\* collector's artists; a collector that is not in users_connections gets an
\* entry.
add_connection(state, artist_wallet_id, collector_wallet_id, alias) ==
    LET artist == Get(state.users_connections, artist_wallet_id)
        added == Replace(state.users_connections, artist_wallet_id,
                     [artist EXCEPT !.collectors = add_one(@, collector_wallet_id)])
    IN  IF Has(added, collector_wallet_id)
        THEN [users_connections |->
                  Replace(added, collector_wallet_id,
                      [Get(added, collector_wallet_id) EXCEPT
                          !.artists = add_one(@, artist_wallet_id)]),
              user_counter |-> state.user_counter]
        ELSE [users_connections |->
                  Append(added,
                      new_connection(collector_wallet_id, alias,
                          <<[wallet_id |-> artist_wallet_id, weight |-> 1]>>,
                          state.user_counter)),
              user_counter |-> state.user_counter + 1]

\* The body of the loop over transactions, for a swap of the swaps bigmap.
connect_collect(state, transaction) ==
    LET objkt_id == swaps_bigmap[swap_id_of(transaction)].objkt_id
        collector_wallet_id == transaction.sender.address
        artist_wallet_id == objkt_creators[objkt_id]
    IN  IF startswith_KT(artist_wallet_id) \/ startswith_KT(collector_wallet_id)
        THEN state
        ELSE IF artist_wallet_id = collector_wallet_id THEN state
        ELSE add_connection(state, artist_wallet_id, collector_wallet_id,
                 connection_alias(collector_wallet_id, ""))

\* The body of the loop over the OBJKT ids of an objkt.com collector.
connect_objkt(state, collector_account, objkt_id) ==
    LET collector_wallet_id == collector_account.wallet_id
        artist_wallet_id == objkt_creators[objkt_id]
    IN  IF startswith_KT(artist_wallet_id) THEN state
        ELSE IF artist_wallet_id = collector_wallet_id THEN state
        ELSE add_connection(state, artist_wallet_id, collector_wallet_id,
                 connection_alias(collector_wallet_id, collector_account.alias))

RECURSIVE connect_objkts(_, _, _)
\* for objkt_id in objkt_ids
connect_objkts(state, collector_account, objkt_ids) ==
    IF objkt_ids = <<>> THEN state
    ELSE connect_objkts(connect_objkt(state, collector_account, Head(objkt_ids)),
                        collector_account, Tail(objkt_ids))

\* The body of the loop over objktcom_collectors.items().
connect_objktcom(state, collector_account) ==
    connect_objkts(state, collector_account,
        collector_account.bid_objkts \o collector_account.ask_objkts
        \o collector_account.english_auction_objkts
        \o collector_account.dutch_auction_objkts)

\* The loop over reported_users.
fill_reported(connections, reported) ==
    [i \in DOMAIN connections |->
        IF \E k \in DOMAIN reported : reported[k] = connections[i].wallet_id
        THEN [connections[i] EXCEPT !.reported = TRUE]
        ELSE connections[i]]

\* [wallet for wallet in weights if keep(wallet)], as the items.
Filter(weights, others, present) ==
    SelectSeq(weights, LAMBDA item : Has(others, item.wallet_id) = present)

\* The loop that turns the two dictionaries of a user into six lists.
reformat(user) ==
    LET both == Filter(user.artists, user.collectors, TRUE)
        artists_only == Filter(user.artists, user.collectors, FALSE)
        collectors_only == Filter(user.collectors, user.artists, FALSE)
    IN  [wallet_id |-> user.wallet_id, alias |-> user.alias,
         reported |-> user.reported, counter |-> user.counter,
         artists_and_collectors |->
             [k \in DOMAIN both |-> both[k].wallet_id],
         artists_and_collectors_weights |->
             [k \in DOMAIN both |->
                 both[k].weight + Get(user.collectors, both[k].wallet_id).weight],
         artists |-> [k \in DOMAIN artists_only |-> artists_only[k].wallet_id],
         artists_weights |->
             [k \in DOMAIN artists_only |-> artists_only[k].weight],
         collectors |->
             [k \in DOMAIN collectors_only |-> collectors_only[k].wallet_id],
         collectors_weights |->
             [k \in DOMAIN collectors_only |-> collectors_only[k].weight]]

\* The serialized dictionary: the item of key user["counter"] for every user,
\* the wallets of its lists replaced by the counters of their entries.
serialize(connections) ==
    LET counter_of(wallet_id) == Get(connections, wallet_id).counter
    IN  [i \in DOMAIN connections |->
            [key |-> connections[i].counter,
             wallet |-> connections[i].wallet_id,
             alias |-> connections[i].alias,
             artists_and_collectors |->
                 [k \in DOMAIN connections[i].artists_and_collectors |->
                     counter_of(connections[i].artists_and_collectors[k])],
             artists_and_collectors_weights |->
                 connections[i].artists_and_collectors_weights,
             artists |->
                 [k \in DOMAIN connections[i].artists |->
                     counter_of(connections[i].artists[k])],
             artists_weights |-> connections[i].artists_weights,
             collectors |->
                 [k \in DOMAIN connections[i].collectors |->
                     counter_of(connections[i].collectors[k])],
             collectors_weights |-> connections[i].collectors_weights,
             reported |-> connections[i].reported]]

\* The call of extract_users_connections.
ConnectionsInit ==
    /\ objkt_creators \in ObjktCreators
    /\ reported_users \in ReportedUsers
    /\ creators_seen = 0
    /\ connect_transactions = <<>>
    /\ objktcom_collectors = <<>>
    /\ users_connections = <<>>
    /\ user_counter = 0
    /\ serialized_users_connections = <<>>
    /\ cpc = "objkt_creators"

\* One iteration of the loop over objkt_creators.values(); after the last
\* one the loop over transactions starts.
AddArtist ==
    /\ cpc = "objkt_creators"
    /\ LET after == add_artist([users_connections |-> users_connections,
                                user_counter |-> user_counter],
                               objkt_creators[ObjktIds[creators_seen + 1]])
       IN  /\ users_connections' = after.users_connections
           /\ user_counter' = after.user_counter
    /\ creators_seen' = creators_seen + 1
    /\ cpc' = IF creators_seen + 1 = Len(ObjktIds) THEN "transactions" ELSE cpc
    /\ UNCHANGED <<objkt_creators, reported_users, connect_transactions,
                   objktcom_collectors, serialized_users_connections>>
    /\ UNCHANGED notConnections

\* One iteration of the loop over transactions.
ConnectStep ==
    /\ cpc = "transactions"
    /\ Len(connect_transactions) + Len(objktcom_collectors) < MaxTx
    /\ \E transaction \in ConnectTransactions :
          /\ swap_id_of(transaction) \in DOMAIN swaps_bigmap
          /\ connect_transactions' = Append(connect_transactions, transaction)
          /\ LET after == connect_collect([users_connections |-> users_connections,
                                           user_counter |-> user_counter],
                                          transaction)
             IN  /\ users_connections' = after.users_connections
                 /\ user_counter' = after.user_counter
    /\ UNCHANGED <<objkt_creators, reported_users, creators_seen,
                   objktcom_collectors, serialized_users_connections, cpc>>
    /\ UNCHANGED notConnections

\* swaps_bigmap[swap_id] raises KeyError, and so does
\* extract_users_connections.
ConnectRaises ==
    /\ cpc = "transactions"
    /\ Len(connect_transactions) + Len(objktcom_collectors) < MaxTx
    /\ \E transaction \in ConnectTransactions :
          /\ swap_id_of(transaction) \notin DOMAIN swaps_bigmap
          /\ connect_transactions' = Append(connect_transactions, transaction)
    /\ cpc' = "failed"
    /\ UNCHANGED <<objkt_creators, reported_users, creators_seen,
                   objktcom_collectors, users_connections, user_counter,
                   serialized_users_connections>>
    /\ UNCHANGED notConnections

\* The list of transactions is exhausted: the loop over the objkt.com
\* collectors starts.
ConnectNextLoop ==
    /\ cpc = "transactions"
    /\ cpc' = "objktcom_collectors"
    /\ UNCHANGED <<objkt_creators, reported_users, creators_seen,
                   connect_transactions, objktcom_collectors, users_connections,
                   user_counter, serialized_users_connections>>
    /\ UNCHANGED notConnections

\* One iteration of the loop over objktcom_collectors.items().
ConnectObjktcomStep ==
    /\ cpc = "objktcom_collectors"
    /\ Len(connect_transactions) + Len(objktcom_collectors) < MaxTx
    /\ \E collector_account \in ObjktcomCollectors :
          /\ objktcom_collectors' = Append(objktcom_collectors, collector_account)
          /\ LET after == connect_objktcom([users_connections |-> users_connections,
                                            user_counter |-> user_counter],
                                           collector_account)
             IN  /\ users_connections' = after.users_connections
                 /\ user_counter' = after.user_counter
    /\ UNCHANGED <<objkt_creators, reported_users, creators_seen,
                   connect_transactions, serialized_users_connections, cpc>>
    /\ UNCHANGED notConnections

\* The loops over reported_users and over the users, the serialization and
\* the return.
ConnectionsReturn ==
    /\ cpc = "objktcom_collectors"
    /\ LET formatted ==
               [i \in DOMAIN users_connections |->
                   reformat(fill_reported(users_connections, reported_users)[i])]
       IN  /\ users_connections' = formatted
           /\ serialized_users_connections' = serialize(formatted)
    /\ cpc' = "returned"
    /\ UNCHANGED <<objkt_creators, reported_users, creators_seen,
                   connect_transactions, objktcom_collectors, user_counter>>
    /\ UNCHANGED notConnections

ConnectionsNext ==
    \/ AddArtist
    \/ ConnectStep
    \/ ConnectRaises
    \/ ConnectNextLoop
    \/ ConnectObjktcomStep
    \/ ConnectionsReturn

ConnectionsOff ==
    /\ objkt_creators = <<>> /\ reported_users = <<>> /\ creators_seen = 0
    /\ connect_transactions = <<>> /\ objktcom_collectors = <<>>
    /\ users_connections = <<>> /\ user_counter = 0
    /\ serialized_users_connections = <<>> /\ cpc = "off"

(***************************************************************************)
(* The batch loop of the metadata scripts, which calls                     *)
(* add_accounts_metadata on one slice of the accounts after the other. An  *)
(* account stands for its position in the dictionary.                      *)
(***************************************************************************)
\* The largest number of accounts of the dictionary a script enriches.
MaxScriptAccounts == 101

\* batch_size: 50 in the artists and patrons scripts, 100 in the collectors
\* script.
BatchSizes == {50, 100}

\* list(accounts.keys()) of the script's dictionary.
script_keys == [k \in 1..n_accounts |-> k - 1]

\* The wallet_ids of the call add_accounts_metadata(accounts, from, to).
batch_wallet_ids(from, to) ==
    slice(script_keys, from, capped(<<to>>, script_keys))

\* The script up to its while loop.
DriverInit ==
    /\ n_accounts \in 0..MaxScriptAccounts
    /\ batch_size \in BatchSizes
    /\ from_index = 0
    /\ to_index = Min(0 + batch_size, n_accounts)
    /\ batches = <<>>
    /\ dpc = "loop"

ProcessBatchOverlapping ==
    /\ dpc = "loop"
    /\ batches' = Append(batches, batch_wallet_ids(from_index, to_index))
    /\ IF to_index = n_accounts
       THEN /\ dpc' = "done"
            /\ UNCHANGED <<from_index, to_index>>
       ELSE /\ from_index' = to_index - 1
            /\ to_index' = Min(to_index + batch_size, n_accounts)
            /\ dpc' = dpc
    /\ UNCHANGED <<n_accounts, batch_size>>
    /\ UNCHANGED notDriver

\* One iteration of the while loop: add_accounts_metadata returns, and the
\* loop ends or goes to the next slice.
ProcessBatch ==
    /\ dpc = "loop"
    /\ batches' = Append(batches, batch_wallet_ids(from_index, to_index))
    /\ IF to_index = n_accounts
       THEN /\ dpc' = "done"
            /\ UNCHANGED <<from_index, to_index>>
       ELSE /\ from_index' = to_index
            /\ to_index' = Min(to_index + batch_size, n_accounts)
            /\ dpc' = dpc
    /\ UNCHANGED <<n_accounts, batch_size>>
    /\ UNCHANGED notDriver

\* add_accounts_metadata raises (a lookup failed twice) and ends the script.
BatchRaises ==
    /\ dpc = "loop"
    /\ batch_wallet_ids(from_index, to_index) # <<>>
    /\ dpc' = "failed"
    /\ UNCHANGED <<n_accounts, batch_size, from_index, to_index, batches>>
    /\ UNCHANGED notDriver

DriverNext ==
    \/ ProcessBatch
    \/ BatchRaises

DriverOff ==
    /\ n_accounts = 0 /\ batch_size = 0 /\ from_index = 0 /\ to_index = 0
    /\ batches = <<>> /\ dpc = "off"

MetadataOff ==
    /\ account_dict = <<>> /\ given = <<>> /\ from_account_index = 0
    /\ to_account_index = <<>> /\ wallet_ids = <<>> /\ index = 0
    /\ lookups = <<>> /\ mpc = "off"

FetchNext ==
    \/ Invoke
    \/ ReadBatch
    \/ DownloadBatch
    \/ LastBatch
    \/ DownloadFails
    \/ Interrupt

\* Every call runs to its end: no exception, and the process is not stopped.
RunNext ==
    \/ Invoke
    \/ ReadBatch
    \/ DownloadBatch
    \/ LastBatch

\* The process may also be stopped inside save_json_file.
TornNext ==
    \/ FetchNext
    \/ InterruptSave

HenNext ==
    \/ MintStep
    \/ MintRaises
    \/ ArtistsReturn
    \/ CollectStep
    \/ CollectRaises
    \/ CollectorsReturn
    \/ SwapStep
    \/ SwapRaises
    \/ SwappersReturn
    \/ GetPatrons
    \/ GetUsers

AccountsNext ==
    \/ MintStep
    \/ MintRaises
    \/ ArtistsReturn
    \/ CollectStep
    \/ CollectRaises
    \/ CollectorsReturn
    \/ SwapStep
    \/ SwapRaises
    \/ SwappersReturn
    \/ GetPatrons
    \/ GetUsers
    \/ BidStep
    \/ AskStep
    \/ EnglishAuctionStep
    \/ DutchAuctionStep
    \/ ObjktcomNextLoop
    \/ ObjktcomRaises
    \/ ObjktcomReturn
    \/ FxhashMintStep
    \/ FxhashNextLoop
    \/ FxhashCollectStep
    \/ FxhashRaises
    \/ FxhashReturn

vars == <<fetchVars, bigmapVars, accountVars, metadataVars, connectionVars,
          driverVars>>

Init ==
    /\ FetchInit /\ BigmapOff /\ AccountsOff /\ MetadataOff
    /\ ConnectionsOff /\ DriverOff

Next == FetchNext

\* The fetchers, stopped between loop iterations or failing at any request.
Spec == Init /\ [][Next]_vars

\* The fetchers left to run: the loop is sequential code, so an iteration
\* that can be taken is taken.
SpecRun == Init /\ [][RunNext]_vars /\ WF_vars(RunNext)

\* The fetchers, stopped at any point, inside save_json_file too.
SpecTorn == Init /\ [][TornNext]_vars

\* The fetchers on a service whose lists grow between the calls.
GrowNext ==
    \/ FetchNext
    \/ RemoteGrows

SpecGrow == Init /\ [][GrowNext]_vars

\* The bigmap builders on any list of bigmap keys.
InitBigmap ==
    /\ BigmapInit /\ FetchOff /\ AccountsOff /\ MetadataOff
    /\ ConnectionsOff /\ DriverOff

SpecBigmap == InitBigmap /\ [][BigmapNext]_vars

InitHen ==
    /\ HenInit /\ FetchOff /\ BigmapOff /\ MetadataOff
    /\ ConnectionsOff /\ DriverOff

\* The artists, collectors and patrons of any lists of mint and collect
\* transactions.
SpecHen == InitHen /\ [][HenNext]_vars

InitAccounts ==
    /\ HenInit \/ ObjktcomInit \/ FxhashInit
    /\ FetchOff
    /\ BigmapOff
    /\ MetadataOff
    /\ ConnectionsOff
    /\ DriverOff

\* The three collector extractors, each on any lists of transactions.
SpecAccounts == InitAccounts /\ [][AccountsNext]_vars

InitMetadata ==
    /\ MetadataInit /\ FetchOff /\ BigmapOff /\ AccountsOff
    /\ ConnectionsOff /\ DriverOff

\* add_accounts_metadata on any slice of a dictionary of accounts.
SpecMetadata == InitMetadata /\ [][MetadataNext]_vars

InitConnections ==
    /\ ConnectionsInit /\ FetchOff /\ BigmapOff /\ AccountsOff /\ MetadataOff
    /\ DriverOff

\* extract_users_connections on any creators, collects and objkt.com
\* collectors.
SpecConnections == InitConnections /\ [][ConnectionsNext]_vars

InitDriver ==
    /\ DriverInit /\ FetchOff /\ BigmapOff /\ AccountsOff /\ MetadataOff
    /\ ConnectionsOff

\* The batch loop of a metadata script: the script is sequential code, so an
\* iteration that can be taken is taken.
SpecDriver == InitDriver /\ [][DriverNext]_vars /\ WF_vars(DriverNext)

(***************************************************************************)
(* The claims about the fetchers.                                          *)
(***************************************************************************)
RECURSIVE ConcatAll(_)
ConcatAll(seqs) ==
    IF seqs = <<>> THEN <<>> ELSE Head(seqs) \o ConcatAll(Tail(seqs))

\* What the remote service holds for the resources of the call, resource after
\* resource, each in the service's order.
ServerList ==
    ConcatAll([k \in 1..Len(contracts(fn, type)) |-> remote[contracts(fn, type)[k]]])

\* The fields of a record that the caller is given.
Projected(record) ==
    IF fn = "get_bigmap_keys"
    THEN record
    ELSE [k \in (DOMAIN record) \cap
                   {"timestamp", "initiator", "sender", "target", "amount",
                    "parameter", "type", "address", "alias",
                    "firstActivityTime", "lastActivityTime"} |-> record[k]]

Expected == [i \in 1..Len(ServerList) |-> Projected(ServerList[i])]

ListFetchers == {"get_all_transactions", "get_bigmap_keys"}

\* C1: called on an empty data directory, get_all_transactions and
\* get_bigmap_keys return every remote record of every contract / bigmap id
\* exactly once, contract after contract, in the server's order.
C1_CompleteInServerOrder ==
    (fn \in ListFetchers /\ pc = "done" /\ runNo = 1) => transactions = Expected

\* A first call that returned more than one batch for each of two contracts.
C1_Witness ==
    /\ fn \in ListFetchers /\ pc = "done" /\ runNo = 1
    /\ Len(contracts(fn, type)) = 2
    /\ \A c \in DOMAIN remote : Len(remote[c]) > per_batch
    /\ Len(transactions) = 2 * MaxRemote

\* C2: a call of get_all_transactions that follows a call stopped after any
\* number of batches returns the full ordered list.
C2_ResumeReturnsFullList ==
    (fn = "get_all_transactions" /\ pc = "done" /\ prior = "killed")
        => transactions = Expected

\* A call that followed a stopped one, read a batch the stopped call had saved
\* and downloaded the rest.
C2_Witness ==
    /\ fn = "get_all_transactions" /\ pc = "done" /\ prior = "killed"
    /\ hits > 0
    /\ Len(transactions) > hits * per_batch

\* C3: a call on the data directory an earlier completed call left behind
\* returns the list that call returned.
C3_SecondCallSameList ==
    (fn \in ListFetchers /\ pc = "done" /\ prior = "done")
        => transactions = prevResult[1]

\* A second call that read batches from the disk and returned a list.
C3_Witness ==
    /\ fn \in ListFetchers /\ pc = "done" /\ prior = "done"
    /\ hits > 1
    /\ Len(transactions) > hits * per_batch

\* C4: no request is sent for a batch whose file exists when the loop reaches
\* the batch.
C4_NoRequestForCachedBatch ==
    event.kind \in {"download", "last", "error"} => ~event.onDisk

\* A call that read a batch from the disk and then requested the next one.
C4_Witness ==
    /\ event.kind \in {"download", "last"}
    /\ hits > 0
    /\ runNo > 1

FirstShortBatch(c) == (Len(remote[c]) \div per_batch) + 1

\* C5: the loop ends, and for each contract it leaves the while loop at the
\* first batch with less than a batch of records, never later and never
\* sooner, also when that batch is empty.
C5_StopsAtFirstShortBatch ==
    /\ [](event.kind = "last" => event.counter = FirstShortBatch(event.resource))
    /\ [](pc = "loop" => counter <= FirstShortBatch(CurContract))
    /\ ((pc = "loop") ~> (pc = "done"))

\* The loop left at an empty batch: the remote count is a multiple of the
\* batch size.
C5_Witness ==
    /\ fn = "get_all_transactions"
    /\ event.kind = "last"
    /\ Len(remote[event.resource]) > 0
    /\ Len(remote[event.resource]) % per_batch = 0
    /\ event.counter = FirstShortBatch(event.resource)

\* C6: a file that save_json_file did not write to its end is never taken for
\* a downloaded batch by a later call.
C6_TornFileNeverTakenForBatch ==
    event.kind = "read" => event.complete

ResourceOf(f) == IF fn = "get_tezos_wallets" THEN "accounts" ELSE f.resource

LastKey == bigmap_keys[Len(bigmap_keys)]
KeyBefore == bigmap_keys[Len(bigmap_keys) - 1]

\* Whether the builder keeps the bigmap key at all (the objkt.com builders
\* drop the entries of other tokens).
Kept(bigmap_key) ==
    builder = "get_objktcom_bigmap" =>
        \/ name = "minter"
        \/ token = "all"
        \/ bigmap_key.value.fa2 \in token_contracts(token)

\* The entries of the dictionary that stand for the key of a bigmap key.
EntriesOf(bigmap_key) ==
    CASE builder = "get_token_bigmap" /\ token = "dict" ->
            {k \in DOMAIN bigmap : bigmap[k] = bigmap_key.key}
      [] builder = "get_hen_bigmap" /\ name = "subjkts metadata" ->
            {k \in DOMAIN bigmap : k = decode_utf8_replace(fromhex(bigmap_key.key))}
      [] OTHER -> {k \in DOMAIN bigmap : k = bigmap_key.key}

\* The decoded value of a bigmap key.
DecodedValue(bigmap_key) ==
    CASE builder = "get_token_bigmap" -> bigmap_key.value
      [] builder = "get_hen_bigmap" /\ name = "registries" ->
            [user |-> decode_utf8_replace(fromhex(bigmap_key.value)),
             active |-> bigmap_key.active]
      [] builder = "get_hen_bigmap" /\ name = "subjkts metadata" ->
            [user_metadata |-> decode_utf8_replace(fromhex(bigmap_key.value)),
             active |-> bigmap_key.active]
      [] OTHER ->
            [f \in DOMAIN bigmap_key.value \cup {"active"} |->
                IF f = "active" THEN bigmap_key.active ELSE bigmap_key.value[f]]

TwoUpdatesOfOneKey ==
    /\ bpc \in {"build", "returned"}
    /\ Len(bigmap_keys) >= 2
    /\ KeyBefore.key = LastKey.key
    /\ Kept(LastKey)

\* C8: after two updates of one key in sequence, every builder's dictionary
\* has exactly one entry for the key, and it is the decoded value of the
\* second update.
C8_LastUpdateWins ==
    TwoUpdatesOfOneKey =>
        /\ Cardinality(EntriesOf(LastKey)) = 1
        /\ \A k \in EntriesOf(LastKey) : bigmap[k] = DecodedValue(LastKey)


(***************************************************************************)
(* The claims about the account extractors.                                *)
(***************************************************************************)
\* The script has gone through extract_collector_accounts' last loop.
HenCollectorsReturned ==
    /\ extractor = "hen"
    /\ apc \in {"extract_swapper_accounts", "get_patron_accounts",
                "get_user_accounts", "done"}

\* C9: after get_patron_accounts, a wallet that is both in artists and in
\* collectors is typed artist in both, is not in patrons, and its artist
\* account's total_money_spent is the sum of the collector's money_spent; every
\* other collector is typed patron and is in patrons, and patrons holds
\* nothing else.
C9_ArtistCollectorsAreNotPatrons ==
    (extractor = "hen" /\ apc \in {"get_user_accounts", "done"}) =>
        /\ \A i \in DOMAIN collectors :
              LET collector == collectors[i]
                  wallet_id == collector.wallet_id
              IN  IF Has(artists, wallet_id)
                  THEN /\ Get(artists, wallet_id).type = "artist"
                       /\ collector.type = "artist"
                       /\ ~Has(patrons, wallet_id)
                       /\ Get(artists, wallet_id).total_money_spent =
                              sum(collector.money_spent)
                  ELSE /\ collector.type = "patron"
                       /\ Has(patrons, wallet_id)
                       /\ Get(patrons, wallet_id) = collector
        /\ \A i \in DOMAIN patrons :
              /\ Has(collectors, patrons[i].wallet_id)
              /\ ~Has(artists, patrons[i].wallet_id)
        /\ \A i \in DOMAIN artists : artists[i].type = "artist"

\* get_patron_accounts has returned, one wallet that minted also collected
\* and paid, and another collector is a patron.
C9_Witness ==
    /\ extractor = "hen"
    /\ apc = "get_user_accounts"
    /\ patrons # <<>>
    /\ \E i \in DOMAIN artists :
          /\ Has(collectors, artists[i].wallet_id)
          /\ artists[i].money_spent # <<>>
          /\ artists[i].total_money_spent > 0

\* What a list of transactions has each buyer pay, in micro-units.
HenPurchases ==
    [i \in DOMAIN collect_transactions |->
        [buyer |-> collect_transactions[i].sender.address,
         paid |-> collect_transactions[i].amount]]

BidPurchases ==
    [i \in DOMAIN bid_transactions |->
        [buyer |-> bids_bigmap[bid_transactions[i].parameter.value].issuer,
         paid |-> int(bids_bigmap[bid_transactions[i].parameter.value].xtz_per_objkt)]]

AskPurchases ==
    [i \in DOMAIN ask_transactions |->
        [buyer |-> ask_transactions[i].sender.address,
         paid |-> ask_transactions[i].amount]]

\* An english auction nobody bid in has no buyer.
EnglishAuctionPurchases ==
    SelectSeq(
        [i \in DOMAIN english_auction_transactions |->
            [buyer |-> english_auctions_bigmap[
                           english_auction_transactions[i].parameter.value].highest_bidder,
             paid |-> int(english_auctions_bigmap[
                           english_auction_transactions[i].parameter.value].current_price)]],
        LAMBDA p : p.paid # 0)

DutchAuctionPurchases ==
    [i \in DOMAIN dutch_auction_transactions |->
        [buyer |-> dutch_auction_transactions[i].sender.address,
         paid |-> dutch_auction_transactions[i].amount]]

FxhashMintPurchases ==
    [i \in DOMAIN mint_transactions |->
        [buyer |-> mint_transactions[i].sender.address,
         paid |-> mint_transactions[i].amount]]

FxhashCollectPurchases == HenPurchases

\* What the purchases of a wallet add up to its list, in order.
Paid(purchases, wallet_id) ==
    LET mine == SelectSeq(purchases, LAMBDA p : p.buyer = wallet_id)
    IN  [k \in DOMAIN mine |-> mine[k].paid \div MicroUnits]

\* The wallets the purchases make accounts of.
Buyers(purchases) ==
    {purchases[i].buyer : i \in {j \in DOMAIN purchases :
                                     startswith_tz(purchases[j].buyer)}}

AccountsOf(accounts) == {accounts[i].wallet_id : i \in DOMAIN accounts}

\* The totals of an extract_collector_accounts account.
HenTotals(collector) ==
    /\ collector.money_spent = Paid(HenPurchases, collector.wallet_id)
    /\ collector.total_money_spent = sum(Paid(HenPurchases, collector.wallet_id))

\* The totals and the items of an objkt.com account.
ObjktcomTotals(collector) ==
    LET w == collector.wallet_id
    IN  /\ collector.bid_money_spent = Paid(BidPurchases, w)
        /\ collector.ask_money_spent = Paid(AskPurchases, w)
        /\ collector.english_auction_money_spent = Paid(EnglishAuctionPurchases, w)
        /\ collector.dutch_auction_money_spent = Paid(DutchAuctionPurchases, w)
        /\ collector.total_money_spent =
               sum(Paid(BidPurchases, w)) + sum(Paid(AskPurchases, w))
               + sum(Paid(EnglishAuctionPurchases, w))
               + sum(Paid(DutchAuctionPurchases, w))
        /\ collector.items =
               Len(Paid(BidPurchases, w)) + Len(Paid(AskPurchases, w))
               + Len(Paid(EnglishAuctionPurchases, w))
               + Len(Paid(DutchAuctionPurchases, w))

\* The totals and the items of an fxhash account.
FxhashTotals(collector) ==
    LET w == collector.wallet_id
    IN  /\ collector.mint_money_spent = Paid(FxhashMintPurchases, w)
        /\ collector.collect_money_spent = Paid(FxhashCollectPurchases, w)
        /\ collector.total_money_spent =
               sum(Paid(FxhashMintPurchases, w))
               + sum(Paid(FxhashCollectPurchases, w))
        /\ collector.items =
               Len(Paid(FxhashMintPurchases, w))
               + Len(Paid(FxhashCollectPurchases, w))

\* The objkt.com and fxhash part of C10, which the code meets.
MarketTotals ==
    /\ (extractor = "objktcom" /\ apc = "done") =>
          /\ AccountsOf(collectors) =
                 Buyers(BidPurchases \o AskPurchases \o EnglishAuctionPurchases
                        \o DutchAuctionPurchases)
          /\ \A i \in DOMAIN collectors : ObjktcomTotals(collectors[i])
    /\ (extractor = "fxhash" /\ apc = "done") =>
          /\ AccountsOf(collectors) =
                 Buyers(FxhashMintPurchases \o FxhashCollectPurchases)
          /\ \A i \in DOMAIN collectors : FxhashTotals(collectors[i])

MintsOf(wallet_id) ==
    SelectSeq(mint_transactions, LAMBDA t : t.initiator.address = wallet_id)

\* The externally-owned initiators of the mint transactions.
Initiators ==
    {mint_transactions[i].initiator.address :
        i \in {j \in DOMAIN mint_transactions :
                  startswith_tz(mint_transactions[j].initiator.address)}}

\* extract_artist_accounts raised: its last mint transaction is the one of a
\* wallet whose alias lookup raises KeyError.
ArtistsRaised ==
    /\ mint_transactions # <<>>
    /\ startswith_tz(mint_transactions[Len(mint_transactions)].initiator.address)
    /\ alias_raises(mint_transactions[Len(mint_transactions)].initiator.address)

Last(list) == list[Len(list)]

\* The step goes through a transaction the code attributes to a contract
\* address.
ContractStep ==
    \/ /\ mint_transactions' # mint_transactions
       /\ ~startswith_tz(IF extractor = "hen"
                         THEN Last(mint_transactions').initiator.address
                         ELSE Last(mint_transactions').sender.address)
    \/ /\ collect_transactions' # collect_transactions
       /\ ~startswith_tz(Last(collect_transactions').sender.address)
    \/ /\ swap_transactions' # swap_transactions
       /\ ~startswith_tz(Last(swap_transactions').sender.address)
    \/ /\ bid_transactions' # bid_transactions
       /\ ~startswith_tz(bids_bigmap[Last(bid_transactions').parameter.value].issuer)
    \/ /\ ask_transactions' # ask_transactions
       /\ ~startswith_tz(Last(ask_transactions').sender.address)
    \/ /\ english_auction_transactions' # english_auction_transactions
       /\ ~startswith_tz(english_auctions_bigmap[
              Last(english_auction_transactions').parameter.value].highest_bidder)
    \/ /\ dutch_auction_transactions' # dutch_auction_transactions
       /\ ~startswith_tz(Last(dutch_auction_transactions').sender.address)

\* Every key of every dictionary of accounts starts with "tz".
OnlyTzKeys ==
    \A w \in AccountsOf(artists) \cup AccountsOf(collectors)
             \cup AccountsOf(swappers) \cup AccountsOf(patrons)
             \cup AccountsOf(users) : startswith_tz(w)

\* C12: every key of the dictionaries the extractors build starts with "tz",
\* and a transaction attributed to a contract address leaves the dictionaries
\* as they were.
C12_NoAccountOfAContract ==
    /\ []OnlyTzKeys
    /\ [][ContractStep => UNCHANGED <<artists, collectors, swappers, patrons,
                                      users>>]_vars

\* extract_objktcom_collector_accounts has gone through a bid of a wallet
\* and a bid of a contract, and has the account of the wallet only.
C12_Witness ==
    /\ extractor = "objktcom"
    /\ Len(bid_transactions) = 2
    /\ bids_bigmap[bid_transactions[1].parameter.value].issuer = "tz1a"
    /\ bids_bigmap[bid_transactions[2].parameter.value].issuer = "KT1c"
    /\ AccountsOf(collectors) = {"tz1a"}
    /\ Len(collectors[1].bid_money_spent) = 1


\* The account get_user_accounts is to take for a wallet: the artist's, else
\* the patron's, else the swapper's.
RoleAccount(wallet_id) ==
    IF Has(artists, wallet_id) THEN Get(artists, wallet_id)
    ELSE IF Has(patrons, wallet_id) THEN Get(patrons, wallet_id)
    ELSE Get(swappers, wallet_id)

\* C13: the keys of the dictionary get_user_accounts returns are the artists,
\* the patrons and the swappers that are neither, each once, with the account
\* of the first of the three roles that has the wallet, in an order in which
\* the first_interaction time stamps do not decrease.
C13_UsersByRoleInTimeOrder ==
    (extractor = "hen" /\ apc = "done") =>
        /\ AccountsOf(users) =
               AccountsOf(artists) \cup AccountsOf(patrons) \cup AccountsOf(swappers)
        /\ \A i, j \in DOMAIN users :
              users[i].wallet_id = users[j].wallet_id => i = j
        /\ \A i \in DOMAIN users : users[i] = RoleAccount(users[i].wallet_id)
        /\ \A i, j \in DOMAIN users :
              i < j => users[i].first_interaction.timestamp
                           <= users[j].first_interaction.timestamp

\* get_user_accounts has returned a swapper before an artist who minted
\* later and also swapped.
C13_Witness ==
    /\ extractor = "hen"
    /\ apc = "done"
    /\ Len(users) = 2
    /\ users[1].type = "swapper"
    /\ users[2].type = "artist"
    /\ Has(swappers, users[2].wallet_id)
    /\ users[1].first_interaction.timestamp < users[2].first_interaction.timestamp


(***************************************************************************)
(* The claims about add_accounts_metadata.                                 *)
(***************************************************************************)
\* The positions of the dictionary from from_account_index up to, and
\* without, the smaller of to_account_index and the number of accounts.
SlicePositions ==
    {k \in DOMAIN given :
        /\ k > from_account_index
        /\ to_account_index # <<>> => k <= to_account_index[1]}

\* The wallets of the slice, in insertion order.
SliceWallets ==
    SelectSeq(keys(given),
              LAMBDA w : \E k \in SlicePositions : given[k].wallet_id = w)

\* The calls that returned.
Returned == SelectSeq(lookups, LAMBDA l : ~l.raised)

\* The account with every pair of the metadata set in it.
Enriched(account, metadata) ==
    [f \in DOMAIN account \cup DOMAIN metadata |->
        IF f \in DOMAIN metadata THEN metadata[f] ELSE account[f]]

\* The account of position k is what the call that returned for it makes of
\* the account given.
EnrichedAt(k) ==
    \E n \in DOMAIN Returned :
        /\ Returned[n].wallet_id = given[k].wallet_id
        /\ account_dict[k] =
               IF Returned[n].response.none THEN given[k]
               ELSE Enriched(given[k], Returned[n].response.metadata)

\* C14: add_accounts_metadata looks up the accounts at the positions
\* [from_account_index, min(to_account_index, len(accounts))) and no other, in
\* that order; it sets every pair a lookup returned in the account, over a
\* field of the same name, and leaves the other fields, the accounts outside
\* the slice and the keys and their order as they were.
C14_EnrichesTheSliceOnly ==
    (mpc = "returned") =>
        /\ keys(Returned) = SliceWallets
        /\ keys(account_dict) = keys(given)
        /\ \A k \in DOMAIN given :
              IF k \in SlicePositions
              THEN EnrichedAt(k)
              ELSE account_dict[k] = given[k]

\* add_accounts_metadata has returned from a slice that is neither empty nor
\* the whole dictionary, with an alias overwritten and a field added.
C14_Witness ==
    /\ mpc = "returned"
    /\ Len(given) = 3
    /\ from_account_index = 1
    /\ to_account_index = <<4>>
    /\ account_dict[1] = given[1]
    /\ account_dict[2].alias = "X"
    /\ "twitter" \in DOMAIN account_dict[3]
    /\ account_dict[3].alias = "A"


\* The calls of get_account_metadata for a wallet.
CallsFor(wallet_id) == SelectSeq(lookups, LAMBDA l : l.wallet_id = wallet_id)

\* C15: a lookup that raises is tried again once, at once, so no account is
\* looked up more than twice; after a second try that returns the account is
\* enriched as after one lookup; after a second try that raises
\* add_accounts_metadata raises, no later account is looked up, the account
\* is as it was and the accounts enriched before keep their fields.
C15_OneRetryThenRaise ==
    /\ \A k \in DOMAIN lookups :
          /\ Len(CallsFor(lookups[k].wallet_id)) <= 2
          /\ (lookups[k].raised /\ k < Len(lookups)) =>
                 lookups[k + 1].wallet_id = lookups[k].wallet_id
          /\ (k > 1 /\ lookups[k - 1].raised) =>
                 /\ lookups[k - 1].wallet_id = lookups[k].wallet_id
                 /\ k > 2 => ~lookups[k - 2].raised
    /\ \A n \in 1..index :
          \E k \in SlicePositions :
              /\ given[k].wallet_id = wallet_ids[n]
              /\ EnrichedAt(k)
    /\ (mpc = "raised") =>
          /\ Len(lookups) >= 2
          /\ lookups[Len(lookups)].raised
          /\ lookups[Len(lookups) - 1].raised
          /\ lookups[Len(lookups)].wallet_id = CurWallet
          /\ Get(account_dict, CurWallet) = Get(given, CurWallet)
          /\ \A n \in (index + 2)..Len(wallet_ids) :
                /\ CallsFor(wallet_ids[n]) = <<>>
                /\ Get(account_dict, wallet_ids[n]) = Get(given, wallet_ids[n])

\* The lookup of the second account of the slice has raised twice after the
\* first account was enriched at its second try, and a third account is left.
C15_Witness ==
    /\ mpc = "raised"
    /\ Len(wallet_ids) = 3
    /\ index = 1
    /\ Len(lookups) = 4
    /\ lookups[1].raised
    /\ ~lookups[2].raised
    /\ account_dict[1].alias = "X"
    /\ "twitter" \in DOMAIN account_dict[1]


\* A collect transaction of a wallet names a swap the swaps bigmap has not.
MissingSwapCollected ==
    \E k \in DOMAIN collect_transactions :
        /\ startswith_tz(collect_transactions[k].sender.address)
        /\ swap_id_of(collect_transactions[k]) \notin DOMAIN swaps_bigmap

\* C16: extract_collector_accounts raises, and returns no dictionary, once
\* it has gone through a collect transaction of a wallet that names a swap
\* the swaps bigmap has not, at the first sighting of the wallet or later.
C16_MissingSwapRaises ==
    (extractor = "hen" /\ MissingSwapCollected) => apc = "failed"


\* C17: when the request of a batch fails the call raises and returns no
\* list, the request is not sent again, no file is written for the batch, the
\* files written before stay as they were, and the next call reads them
\* instead of requesting their batches.
C17_FailedRequestEndsTheCall ==
    /\ [](event.kind = "error" =>
              /\ pc = "failed"
              /\ event.file \notin DOMAIN disk)
    /\ [][(event'.kind = "error" /\ event.kind # "error") => disk' = disk]_vars
    /\ [][pc = "failed" => (pc' = "loop" /\ runNo' = runNo + 1 /\ disk' = disk)]_vars
    /\ [][(pc = "loop" /\ prior = "failed" /\ CurFile \in DOMAIN disk
             /\ pc' # "killed")
          => (event'.kind = "read" /\ disk' = disk)]_vars

\* The call after one that raised at a request has read a batch the failed
\* call had saved.
C17_Witness ==
    /\ runNo = 2
    /\ prior = "failed"
    /\ hits > 0
    /\ event.kind = "read"


FilterInputs ==
    {remote[c] : c \in DOMAIN remote} \cup {disk[f].data : f \in DOMAIN disk}

\* C19: the filters of the transactions and of the wallets give the same
\* list applied twice as applied once, every record they give has the fields
\* of the record given that are relevant keywords, with their values, and no
\* other, and every record a call returns, read from a file or downloaded,
\* has relevant keywords only.
C19_FiltersAreIdempotentProjections ==
    fn \in {"get_all_transactions", "get_tezos_wallets"} =>
        /\ \A records \in FilterInputs :
              LET once == extract_relevant_information(fn, records)
              IN  /\ extract_relevant_information(fn, once) = once
                  /\ Len(once) = Len(records)
                  /\ \A i \in DOMAIN records :
                        /\ DOMAIN once[i] =
                               (DOMAIN records[i]) \cap relevant_keywords(fn)
                        /\ \A keyword \in DOMAIN once[i] :
                               once[i][keyword] = records[i][keyword]
        /\ \A i \in DOMAIN transactions :
              DOMAIN transactions[i] \subseteq relevant_keywords(fn)

\* A call of get_all_transactions has returned records of a batch it read
\* and of a batch it downloaded; the service's records have fields that are
\* not relevant, and one of them lacks a relevant field another has.
C19_Witness ==
    /\ fn = "get_all_transactions"
    /\ pc = "done"
    /\ hits > 0
    /\ event.kind = "last"
    /\ Len(transactions) > hits * per_batch
    /\ \E i, j \in DOMAIN transactions :
          /\ "initiator" \in DOMAIN transactions[i]
          /\ "initiator" \notin DOMAIN transactions[j]
    /\ \E c \in DOMAIN remote : \E i \in DOMAIN remote[c] :
          "hash" \in DOMAIN remote[c][i]


\* Whether an entry of the returned dictionary has an "active" field.  The
\* entries of a token bigmap with plain keys are the raw values (strings),
\* which have no fields.
HasActive(entry) ==
    IF builder = "get_token_bigmap" /\ token # "dict"
    THEN FALSE
    ELSE "active" \in DOMAIN entry

\* C20: every entry of every reconstructed bigmap (HEN, objkt.com, fxhash and
\* token bigmaps) carries an "active" field, equal to the active flag of the
\* bigmap key that produced the entry: after each iteration that keeps its
\* bigmap key, the entries standing for that key have the field with the
\* key's flag.
C20_EveryEntryCarriesActive ==
    (bpc \in {"build", "returned"} /\ bigmap_keys # <<>> /\ Kept(LastKey)) =>
        /\ EntriesOf(LastKey) # {}
        /\ \A k \in EntriesOf(LastKey) :
              /\ HasActive(bigmap[k])
              /\ bigmap[k].active = LastKey.active



\* C21: building the registries or the subjkts metadata bigmap never aborts
\* on a malformed value: whatever the hex text of the last bigmap key, the
\* builder has not failed and the dictionary has an entry for its key.
C21_MalformedValueNeverAborts ==
    (/\ builder = "get_hen_bigmap"
     /\ name \in {"registries", "subjkts metadata"}
     /\ bigmap_keys # <<>>) =>
        /\ bpc # "failed"
        /\ EntriesOf(LastKey) # {}



\* The alias the precedence gives an address: the registries name, else the
\* wallet alias when tezos_wallets has one for the address, else the empty
\* string.
ResolvedAlias(wallet_id) ==
    IF wallet_id \in DOMAIN registries_bigmap
    THEN registries_bigmap[wallet_id].user
    ELSE IF wallet_id \in DOMAIN tezos_wallets
            /\ "alias" \in DOMAIN tezos_wallets[wallet_id]
         THEN tezos_wallets[wallet_id].alias
         ELSE ""

\* An extractor raised in the lookup of an alias.
AliasLookupRaised ==
    /\ apc = "failed"
    /\ \/ extractor # "hen"
       \/ ArtistsRaised
       \/ /\ collect_transactions # <<>>
          /\ swap_transactions = <<>>
          /\ alias_raises(Last(collect_transactions).sender.address)
       \/ /\ swap_transactions # <<>>
          /\ alias_raises(Last(swap_transactions).sender.address)

\* The accounts whose alias an extractor has set: the market extractors set
\* it in their last loop.
AliasedAccounts ==
    {artists[i] : i \in DOMAIN artists} \cup {swappers[i] : i \in DOMAIN swappers}
    \cup (IF extractor = "hen" \/ apc = "done"
          THEN {[wallet_id |-> collectors[i].wallet_id,
                 alias |-> collectors[i].alias] : i \in DOMAIN collectors}
          ELSE {})

\* C22: every account an extractor made has the alias of the precedence
\* registries name > wallet alias > empty string, and the resolution always
\* yields a value: no extractor raises in it, also for an address that is in
\* neither mapping.
C22_AliasAlwaysResolved ==
    /\ \A account \in AliasedAccounts :
          account.alias = ResolvedAlias(account.wallet_id)
    /\ ~AliasLookupRaised



\* max(values), for a set of numbers that is not empty.
MaxOf(values) == CHOOSE v \in values : \A u \in values : u <= v

\* The time stamps of the transactions an extractor folded into an account.
FoldedTimestamps(account) ==
    CASE extractor = "hen" ->
            {collect_transactions[k].timestamp :
                k \in {j \in DOMAIN collect_transactions :
                          collect_transactions[j].sender.address = account.wallet_id}}
      [] extractor = "objktcom" ->
            {account.bid_timestamps[k] : k \in DOMAIN account.bid_timestamps}
            \cup {account.ask_timestamps[k] : k \in DOMAIN account.ask_timestamps}
            \cup {account.english_auction_timestamps[k] :
                     k \in DOMAIN account.english_auction_timestamps}
            \cup {account.dutch_auction_timestamps[k] :
                     k \in DOMAIN account.dutch_auction_timestamps}
      [] OTHER ->
            {account.mint_timestamps[k] : k \in DOMAIN account.mint_timestamps}
            \cup {account.collect_timestamps[k] :
                     k \in DOMAIN account.collect_timestamps}

\* C23: in every extractor that has not raised, whatever the order of the
\* transactions (the collect transactions of the two marketplace contracts
\* come one list after the other), the time stamp of an account's last
\* pointer (last_objkt, last_collect) is the latest time stamp of the
\* address's transactions.
C23_LastIsLatest ==
    (apc # "failed") =>
        /\ \A i \in DOMAIN artists :
              artists[i].last_objkt.timestamp =
                  MaxOf({MintsOf(artists[i].wallet_id)[k].timestamp :
                            k \in DOMAIN MintsOf(artists[i].wallet_id)})
        /\ \A i \in DOMAIN collectors :
              FoldedTimestamps(collectors[i]) # {} =>
                  collectors[i].last_collect.timestamp =
                      MaxOf(FoldedTimestamps(collectors[i]))



\* The first interaction of an artist that also collected, from the two
\* first pointers of the account.
EarlierOfMintAndCollect(artist) ==
    IF artist.first_collect.timestamp < artist.first_objkt.timestamp
    THEN [type |-> "collect", timestamp |-> artist.first_collect.timestamp]
    ELSE [type |-> "mint", timestamp |-> artist.first_objkt.timestamp]

PatronsReturned ==
    /\ extractor = "hen"
    /\ apc \in {"get_user_accounts", "done"}

\* C24: after get_patron_accounts, an artist that is also a collector has the
\* collector's first_collect, and its first_interaction is the earlier of
\* first_objkt and first_collect by time stamp, named "mint" or "collect",
\* "mint" on equal time stamps; get_patron_accounts leaves the first
\* interaction of an artist that never collected as it was.
C24_FirstInteractionIsTheEarlier ==
    /\ [](PatronsReturned =>
             \A i \in DOMAIN artists :
                 Has(collectors, artists[i].wallet_id) =>
                     /\ artists[i].first_collect =
                            Get(collectors, artists[i].wallet_id).first_collect
                     /\ artists[i].first_interaction =
                            EarlierOfMintAndCollect(artists[i]))
    /\ [][GetPatrons =>
             /\ DOMAIN artists' = DOMAIN artists
             /\ \A i \in DOMAIN artists :
                   ~Has(collectors, artists[i].wallet_id) =>
                       artists'[i].first_interaction = artists[i].first_interaction]_vars

\* get_patron_accounts has returned, and an artist collected before its
\* first mint.
C24_Witness ==
    /\ PatronsReturned
    /\ \E i \in DOMAIN artists :
          /\ Has(collectors, artists[i].wallet_id)
          /\ artists[i].first_collect.timestamp < artists[i].first_objkt.timestamp
          /\ artists[i].first_interaction.type = "collect"

\* An artist that minted and collected at the same time keeps "mint".
C24_WitnessTie ==
    /\ PatronsReturned
    /\ \E i \in DOMAIN artists :
          /\ Has(collectors, artists[i].wallet_id)
          /\ artists[i].first_collect.timestamp = artists[i].first_objkt.timestamp
          /\ artists[i].first_interaction.type = "mint"



(***************************************************************************)
(* The order of the pages of a call over several contracts.                *)
(***************************************************************************)
\* A call of get_all_transactions for a type of two contracts.
MultiContract ==
    /\ fn = "get_all_transactions"
    /\ Len(contracts(fn, type)) > 1

\* The records of the pages the loop has gone through: all of the contracts
\* before the current one, and of the current one the pages at the offsets
\* 0, B, ... below the current offset.
PagesSoFar ==
    ConcatAll([k \in 1..ci |->
        IF k < ci
        THEN remote[contracts(fn, type)[k]]
        ELSE SubSeq(remote[CurContract], 1, CurOffset)])

C26_CacheHidesNoLaterRecord ==
    /\ [](\A file \in DOMAIN disk : Len(disk[file].data) = per_batch)
    /\ [][(pc = "loop" /\ pc' = "done") => transactions' = Expected']_vars

\* A call that read pages an earlier completed call had saved and returned a
\* longer list than that call: the service had got new records in between.
C26_Witness ==
    /\ pc = "done"
    /\ prior = "done"
    /\ hits > 0
    /\ Len(transactions) > Len(prevResult[1])
    /\ transactions = Expected



\* The collect transactions of a wallet, in input order.
CollectsOf(wallet_id) ==
    SelectSeq(collect_transactions, LAMBDA t : t.sender.address = wallet_id)

\* C27: while extract_collector_accounts runs and after it, the last_collect
\* of every collector has the fields of first_collect, its objkt_id is the
\* OBJKT of the swap of the collector's own last collect transaction in input
\* order (for a swap that is in the swaps bigmap), and its timestamp is the
\* time stamp of that transaction.
C27_LastCollectIsOwnLastSwap ==
    (extractor = "hen" /\ apc # "failed") =>
        \A i \in DOMAIN collectors :
            LET collects == CollectsOf(collectors[i].wallet_id)
                last == collects[Len(collects)]
            IN  swap_id_of(last) \in DOMAIN swaps_bigmap =>
                    /\ DOMAIN collectors[i].last_collect =
                           DOMAIN collectors[i].first_collect
                    /\ collectors[i].last_collect.objkt_id =
                           swaps_bigmap[swap_id_of(last)].objkt_id
                    /\ collectors[i].last_collect.timestamp = last.timestamp



\* min(values), for a set of numbers that is not empty.
MinOf(values) == CHOOSE v \in values : \A u \in values : v <= u

\* The channel lists of a market account, in the order the extractor goes
\* through its lists of transactions.
Channels(account) ==
    IF extractor = "objktcom"
    THEN <<[type |-> "bid", timestamps |-> account.bid_timestamps],
           [type |-> "ask", timestamps |-> account.ask_timestamps],
           [type |-> "english_auction",
            timestamps |-> account.english_auction_timestamps],
           [type |-> "dutch_auction",
            timestamps |-> account.dutch_auction_timestamps]>>
    ELSE <<[type |-> "mint", timestamps |-> account.mint_timestamps],
           [type |-> "collect", timestamps |-> account.collect_timestamps]>>

\* The first channel, in processing order, that has a transaction of the
\* account's earliest time stamp.
EarliestChannel(account) ==
    LET earliest == MinOf(FoldedTimestamps(account))
        has(k) == \E j \in DOMAIN Channels(account)[k].timestamps :
                      Channels(account)[k].timestamps[j] = earliest
        first == CHOOSE k \in DOMAIN Channels(account) :
                     has(k) /\ \A j \in 1..(k - 1) : ~has(j)
    IN  Channels(account)[first].type

\* C28: in the objkt.com and fxhash extractors, each list of transactions
\* being in time order, every account has first_collect.timestamp the
\* earliest and last_collect.timestamp the latest time stamp of its channel
\* lists, first_interaction.timestamp equal to first_collect.timestamp, and
\* first_interaction.type the channel of the earliest transaction, the
\* channel processed first when two channels share the time stamp.
C28_FirstAndLastOverAllChannels ==
    (extractor \in {"objktcom", "fxhash"}) =>
        \A i \in DOMAIN collectors :
            LET account == collectors[i]
            IN  /\ account.first_collect.timestamp = MinOf(FoldedTimestamps(account))
                /\ account.last_collect.timestamp = MaxOf(FoldedTimestamps(account))
                /\ account.first_interaction.timestamp =
                       account.first_collect.timestamp
                /\ account.first_interaction.type = EarliestChannel(account)

\* extract_objktcom_collector_accounts has returned an account whose first
\* bid and first ask have the same time stamp and that bought again later.
C28_Witness ==
    /\ extractor = "objktcom"
    /\ apc = "done"
    /\ \E i \in DOMAIN collectors :
          /\ collectors[i].bid_timestamps # <<>>
          /\ collectors[i].ask_timestamps # <<>>
          /\ collectors[i].bid_timestamps[1] = collectors[i].ask_timestamps[1]
          /\ collectors[i].first_interaction.type = "bid"
          /\ collectors[i].first_collect.timestamp
                 < collectors[i].last_collect.timestamp



(***************************************************************************)
(* The claims about extract_users_connections.                             *)
(***************************************************************************)
\* weights[wallet_id], or 0 for a wallet that is no key.
WeightOf(weights, wallet_id) ==
    IF Has(weights, wallet_id) THEN Get(weights, wallet_id).weight ELSE 0

\* The loops that build the graph are running, or one of them raised: the
\* dictionaries have not been turned into lists.
BuildingConnections ==
    cpc \in {"objkt_creators", "transactions", "objktcom_collectors", "failed"}

\* The counters a serialized entry refers to.
References(entry) ==
    {entry.artists_and_collectors[k] : k \in DOMAIN entry.artists_and_collectors}
    \cup {entry.artists[k] : k \in DOMAIN entry.artists}
    \cup {entry.collectors[k] : k \in DOMAIN entry.collectors}

\* C29: while extract_users_connections builds the graph, after every
\* iteration, the weights are symmetric (the count of collector C in the
\* collectors of artist A is the count of A in the artists of C), no user is
\* connected to itself, no contract address is a user, every connected
\* wallet is a user, and the counters of the users are distinct and are
\* exactly 0..N-1 in insertion order; so every reference of the serialized
\* dictionary is the key of exactly one of its entries.
C29_SymmetricWeightsAndDenseCounters ==
    /\ BuildingConnections =>
          /\ \A i, j \in DOMAIN users_connections :
                LET a == users_connections[i]
                    c == users_connections[j]
                IN  WeightOf(a.collectors, c.wallet_id)
                        = WeightOf(c.artists, a.wallet_id)
          /\ \A i \in DOMAIN users_connections :
                LET user == users_connections[i]
                IN  /\ ~Has(user.artists, user.wallet_id)
                    /\ ~Has(user.collectors, user.wallet_id)
                    /\ ~startswith_KT(user.wallet_id)
                    /\ \A k \in DOMAIN user.artists :
                          Has(users_connections, user.artists[k].wallet_id)
                    /\ \A k \in DOMAIN user.collectors :
                          Has(users_connections, user.collectors[k].wallet_id)
                    /\ user.counter = i - 1
          /\ \A i, j \in DOMAIN users_connections :
                users_connections[i].wallet_id = users_connections[j].wallet_id
                    => i = j
          /\ user_counter = Len(users_connections)
    /\ cpc = "returned" =>
          \A i \in DOMAIN serialized_users_connections :
              \A n \in References(serialized_users_connections[i]) :
                  Cardinality({j \in DOMAIN serialized_users_connections :
                                  serialized_users_connections[j].key = n}) = 1

\* extract_users_connections has returned a graph in which a collector
\* collected twice from one artist, an artist collected from its collector,
\* and an objkt.com collector was added as a user.
C29_Witness ==
    /\ cpc = "returned"
    /\ Len(connect_transactions) = 2
    /\ Len(objktcom_collectors) = 1
    /\ \E i \in DOMAIN users_connections :
          /\ users_connections[i].collectors_weights # <<>>
          /\ users_connections[i].collectors_weights[1] = 2
    /\ Len(serialized_users_connections) = 3
    /\ \E i \in DOMAIN serialized_users_connections :
          References(serialized_users_connections[i]) # {}



(***************************************************************************)
(* The claims about the batch loop of the metadata scripts.                *)
(***************************************************************************)
\* The account indices the script has passed to add_accounts_metadata so
\* far, in the order of the calls.
IndicesPassed == ConcatAll(batches)

\* The batch loop is over: the script went past its break, or a call raised.
DriverEnded == dpc \in {"done", "failed"}

\* C30: the batch loop of the metadata scripts ends for every number of
\* accounts, zero included; the slices it has passed to
\* add_accounts_metadata are, put together, the indices 0..from_index-1 in
\* increasing order (so contiguous and without overlap), the next slice is
\* [from_index, to_index), and when the loop ends at its break every account
\* index has been passed exactly once.
C30_BatchLoopEndsAndCoversEveryIndexOnce ==
    /\ [](dpc = "loop" =>
            /\ from_index <= to_index /\ to_index <= n_accounts
            /\ to_index = Min(from_index + batch_size, n_accounts)
            /\ IndicesPassed = [k \in 1..from_index |-> k - 1])
    /\ [](dpc = "done" => IndicesPassed = script_keys)
    /\ <>DriverEnded

\* The loop has ended at its break after three slices: 101 accounts in
\* batches of 50, the last slice holding the one remaining account.
C30_Witness ==
    /\ dpc = "done"
    /\ n_accounts = 101 /\ batch_size = 50
    /\ Len(batches) = 3
    /\ batches[3] = <<100>>

\* The loop has ended at its break for a dictionary with no account, after
\* one call with an empty slice.
C30_WitnessNoAccount ==
    /\ dpc = "done"
    /\ n_accounts = 0
    /\ batches = << <<>> >>


====
